---- MODULE Spec2Model ----
(***************************************************************************)
(* A model of the DPO training orchestration of nemo_rl/algorithms/dpo.py: *)
(* the dpo_train loop with its checkpoint staging and resume, the batch    *)
(* augmenter add_ref_logprobs_to_data and validate_one_dataset.            *)
(***************************************************************************)
EXTENDS Integers, Naturals, Sequences, FiniteSets, TLC

\* ------------------------------------------------------------- bounds
MaxEpochs == 2
MaxBatches == 3
GlobalBatchSize == 2

MaxNumStepsChoices == {2, 100}
SavePeriodChoices == {2, 3}
ValPeriodChoices == {0, 2}
ValDatasetChoices == {{}, {"A"}, {"A", "B"}}
TokChoices == {1, 2}
NoneLoaderChoices == {{}, {"A"}, {"B"}}

\* validate_one_dataset: batches in the validation stream, micro-batches per
\* batch, and the per-micro-batch metric values the trainer may return.
MaxValStream == 2
MaxMicroBatches == 2
ValBatchesChoices == {-1, 0, 1, 2}
MbValueChoices == {<<1, 0>>, <<2, 1>>}

\* add_ref_logprobs_to_data: batches in the upstream stream, rows per batch,
\* sequence length, and the sharding configuration.
MaxRefStream == 2
MaxBatchSize == 4
MaxSeqLen == 3
DpSizeChoices == {1, 2}
MicroBatchSizeChoices == {1, 2}

\* _postprocess_penguin_to_nemo_rl_result: items in the response output and
\* tokens in a prompt.
MaxOutputItems == 3
MaxPromptLen == 3

\* format_dpo_chatml: messages in a conversation.
MaxConversationLen == 2

\* ------------------------------------------------------------- values
\* Python's None, and an Optional value as a sequence of length 0 or 1.
None == <<>>
Some(x) == <<x>>

\* A dict key is the sequence of the tokens its string splits into at "_"
\* and "-": "total_valid_tokens" is <<"total", "valid", "tokens">> and
\* "validation-A_sft_loss" is <<"validation", "A", "sft", "loss">>.
K_epoch == <<"epoch">>
K_step == <<"step">>
K_total_steps == <<"total", "steps">>
K_consumed_samples == <<"consumed", "samples">>
K_total_valid_tokens == <<"total", "valid", "tokens">>

DPOValMetrics ==
    << <<"loss">>, <<"sft", "loss">>, <<"preference", "loss">>, <<"accuracy">>,
       <<"rewards", "chosen", "mean">>, <<"rewards", "rejected", "mean">>,
       <<"num", "valid", "samples">>, <<"global", "valid", "seqs">>,
       <<"global", "valid", "toks">> >>

MetricNames == {DPOValMetrics[i] : i \in 1..Len(DPOValMetrics)}
M_num_valid_samples == <<"num", "valid", "samples">>

_default_dpo_save_state ==
    (K_epoch :> 0) @@ (K_step :> 0) @@ (K_total_steps :> 0)
      @@ (K_consumed_samples :> 0) @@ (K_total_valid_tokens :> 0)

\* str.startswith("val") on the first token of a key.
StartsWithVal(key) == Len(key) > 0 /\ key[1] \in {"validation", "valid", "val"}

\* key.endswith("_" + metric_name): the key's last tokens are the metric's,
\* with at least one token before them.
EndsWithMetric(key, metric_name) ==
    /\ Len(key) > Len(metric_name)
    /\ SubSeq(key, Len(key) - Len(metric_name) + 1, Len(key)) = metric_name

\* f"validation-{val_dataset_name}" followed by f"_{metric_name}".
ValKey(val_dataset_name, metric_name) ==
    <<"validation", val_dataset_name>> \o metric_name

\* ------------------------------------------------------------- state
VARIABLES
    cfg,                     \* master_config, fixed for the life of the job
    pc,                      \* position of the process in dpo_train
    current_epoch, current_step, total_steps, total_valid_tokens,
    dpo_save_state,          \* the ProgressState dict (None before entry)
    val_metrics,             \* None, or Some(dict) of this step's validation
    is_last_step,
    should_save_by_timeout,
    train_dataloader,        \* cursor of the StatefulDataLoader
    store,                   \* checkpoint store: staging area and latest
    done_steps,              \* ghost: training steps completed over the whole run
    written,                 \* ghost: keys finalized by this process, in order
    resumed,                 \* ghost: this process started from a checkpoint
    observed                 \* ghost: what this process has done so far

VARIABLES
    val_stream,              \* input: all_mb_metrics of each batch of the stream
    val_batches,             \* input: dpo.val_batches
    vod_pc,                  \* position in validate_one_dataset
    batch_idx,               \* batches taken from the stream so far
    vod_val_metrics,         \* defaultdict(list), then the DPOValMetrics
    num_valid_batches,
    vod_warnings,            \* warnings.warn calls so far
    policy_mode              \* "train" or "eval": the trainer's mode

vodVars ==
    <<val_stream, val_batches, vod_pc, batch_idx, vod_val_metrics,
      num_valid_batches, vod_warnings, policy_mode>>

VARIABLES
    ref_cfg,                 \* input: is_val, dp_size and the micro-batch sizes
    ref_dataloader,          \* input: batch.size of each upstream batch
    ref_pc,                  \* position of the generator
    ref_pulled,              \* batches taken from the upstream stream
    ref_calls,               \* calls of get_reference_policy_logprobs
    ref_batch                \* the batch in hand, None before the first

refVars ==
    <<ref_cfg, ref_dataloader, ref_pc, ref_pulled, ref_calls, ref_batch>>

VARIABLES
    setup_cfg,               \* input: the switches of master_config setup reads
    setup_pc,                \* position in setup
    setup_effects            \* what setup has done so far, in order

setupVars == <<setup_cfg, setup_pc, setup_effects>>

VARIABLES
    reduce_pc,               \* position in the reduction of one metric
    metric_key,              \* input: k, a key of the step's metrics
    metric_values,           \* input: v, its per-micro-batch values
    reduced                  \* metrics[k] after the loop body, None before

reduceVars == <<reduce_pc, metric_key, metric_values, reduced>>

VARIABLES
    penguin_pc,              \* position in _postprocess_penguin_to_nemo_rl_result
    output_items,            \* penguin_result["response"]["output"], as read so far
    nemo_rl_message_log,
    seen_token_ids,
    nemo_rl_result           \* the dict returned, None before

penguinVars ==
    <<penguin_pc, output_items, nemo_rl_message_log, seen_token_ids,
      nemo_rl_result>>

VARIABLES
    format_pc,               \* position in format_dpo_chatml
    data,                    \* input: the chosen and rejected conversations
    formatted                \* the dict returned, None before

formatVars == <<format_pc, data, formatted>>

trainVars ==
    <<cfg, pc, current_epoch, current_step, total_steps, total_valid_tokens,
      dpo_save_state, val_metrics, is_last_step, should_save_by_timeout,
      train_dataloader, store, done_steps, written, resumed, observed>>

Configs ==
    [max_num_epochs : 1..MaxEpochs,
     max_num_steps : MaxNumStepsChoices,
     val_period : ValPeriodChoices,
     val_at_start : BOOLEAN,
     val_datasets : ValDatasetChoices,
     enabled : BOOLEAN,
     save_period : SavePeriodChoices,
     len_train_dataloader : 1..MaxBatches,
     none_loaders : {{}},
     metric_name : {None}]

\* checkpointing.metric_name: unset, or the loss of validation dataset A.
MetricNameChoices == {None, Some(ValKey("A", <<"loss">>))}

\* The configurations with checkpointing enabled, over the optional parts:
\* validation loaders that are None and a best-checkpoint metric.
OptionConfigs ==
    {c \in [max_num_epochs : 1..MaxEpochs,
            max_num_steps : MaxNumStepsChoices,
            val_period : ValPeriodChoices,
            val_at_start : BOOLEAN,
            val_datasets : ValDatasetChoices,
            enabled : {TRUE},
            save_period : SavePeriodChoices,
            len_train_dataloader : 1..MaxBatches,
            none_loaders : NoneLoaderChoices,
            metric_name : MetricNameChoices] :
        c.none_loaders \subseteq c.val_datasets}

\* ------------------------------------------------------------- helpers
\* Mutant: the restored cursor is ignored.
LoaderIterFromStart(dl) == [pos |-> 0, restored |-> FALSE]

\* iter(train_dataloader): a cursor restored by load_state_dict resumes after
\* the batches already yielded; otherwise iteration starts afresh.
LoaderIter(dl) ==
    [pos |-> IF dl.restored THEN dl.pos ELSE 0, restored |-> FALSE]

FreshLoader == [pos |-> 0, restored |-> FALSE]

\* validate(): one entry per dataset of val_dataloader and per metric name.
\* The values of a validation pass are opaque here; each is tagged with the
\* step whose model state produced it.
validate(val_datasets, step) ==
    [key \in {ValKey(d, m) : d \in val_datasets, m \in MetricNames} |-> step]

\* val_dataloader.items(): the datasets in the order of the dict.
DatasetOrder == <<"A", "B">>

Position(d) == CHOOSE i \in DOMAIN DatasetOrder : DatasetOrder[i] = d

\* Mutant: an empty mapping counts as a loader that is None.
MeetsNoneLoaderOrEmpty(c) ==
    c.val_datasets = {} \/ c.val_datasets \cap c.none_loaders # {}

\* The loop of validate() reaches a dataset whose loader is None.
MeetsNoneLoader(c) == c.val_datasets \cap c.none_loaders # {}

\* The datasets validate() passes over: all of them, or those that come
\* before the first one whose loader is None.
PassedOver(c) ==
    {d \in c.val_datasets :
        \A e \in c.val_datasets \cap c.none_loaders : Position(d) < Position(e)}

\* Lines 369-374 with line 323: for a loader that is None the assertion
\* fails when val_period is not 0; otherwise validate_one_dataset returns
\* None, which validate() cannot unpack into two values.
NoneLoaderError(val_period) ==
    IF val_period = 0 THEN "TypeError" ELSE "AssertionError"

\* Mutant: num_valid_samples is pruned like the other metrics.
IsOutdatedKeyAnyMetric(key, vm) ==
    /\ StartsWithVal(key)
    /\ \E m \in MetricNames : EndsWithMetric(key, m)
    /\ (vm = None \/ key \notin DOMAIN vm[1])

\* The stale-key test of the pruning loop.
IsOutdatedKey(key, vm) ==
    /\ StartsWithVal(key)
    /\ \E m \in MetricNames \ {M_num_valid_samples} : EndsWithMetric(key, m)
    /\ (vm = None \/ key \notin DOMAIN vm[1])

\* Mutant: the pruning loop deletes nothing.
RemoveOutdatedKeepsAll(state, vm) == state

RemoveOutdated(state, vm) ==
    [key \in {k \in DOMAIN state : ~IsOutdatedKey(k, vm)} |-> state[key]]

DictUpdate(state, d) ==
    [key \in DOMAIN state \cup DOMAIN d |->
        IF key \in DOMAIN d THEN d[key] ELSE state[key]]

MergeValMetrics(state, vm) ==
    IF vm # None THEN DictUpdate(state, vm[1]) ELSE state

\* Mutant: the checkpoint records total_steps before the increment.
SaveStateStaleTotal(state, vm) ==
    LET s1 == DictUpdate(state,
                 (K_step :> (current_step + 1) % cfg.len_train_dataloader)
                   @@ (K_total_steps :> total_steps)
                   @@ (K_epoch :> current_epoch)
                   @@ (K_total_valid_tokens :> total_valid_tokens))
    IN MergeValMetrics(RemoveOutdated(s1, vm), vm)

\* Mutant: the step recorded is not taken modulo the epoch length.
SaveStateStepNotWrapped(state, vm) ==
    LET s1 == DictUpdate(state,
                 (K_step :> current_step + 1)
                   @@ (K_total_steps :> total_steps + 1)
                   @@ (K_epoch :> current_epoch)
                   @@ (K_total_valid_tokens :> total_valid_tokens))
    IN MergeValMetrics(RemoveOutdated(s1, vm), vm)

\* The ProgressState written into a checkpoint (lines 628-647).
SaveStateForCheckpoint(state, vm) ==
    LET s1 == DictUpdate(state,
                 (K_step :> (current_step + 1) % cfg.len_train_dataloader)
                   @@ (K_total_steps :> total_steps + 1)
                   @@ (K_epoch :> current_epoch)
                   @@ (K_total_valid_tokens :> total_valid_tokens))
    IN MergeValMetrics(RemoveOutdated(s1, vm), vm)

IsLastStep ==
    \/ total_steps + 1 >= cfg.max_num_steps
    \/ (current_epoch + 1 = cfg.max_num_epochs
        /\ current_step + 1 = cfg.len_train_dataloader)

\* Mutant: the save period is tested on the 0-based step count.
ShouldSaveByStepZeroBased ==
    is_last_step \/ total_steps % cfg.save_period = 0

ShouldSaveByStep ==
    is_last_step \/ (total_steps + 1) % cfg.save_period = 0

\* Mutant: the checkpointing.enabled switch is ignored.
ShouldCheckpointAlways(by_timeout) == ShouldSaveByStep \/ by_timeout

ShouldCheckpoint(by_timeout) ==
    cfg.enabled /\ (ShouldSaveByStep \/ by_timeout)

IsValStep == cfg.val_period > 0 /\ (total_steps + 1) % cfg.val_period = 0

EmptyStore == [latest |-> None, tmp |-> None]

\* A new process has run no initial validation, has passed over no
\* validation dataset, has warned at no step about a missing
\* best-checkpoint metric, has taken no batch from the training loader, has
\* made no reference-scoring call for one and has trained on none; it has
\* taken no counters from a save state, has added up no global_valid_toks,
\* has made no operation of an iteration and no call to the timeout
\* tracker.
NothingObserved ==
    [initial_validation |-> FALSE, validated |-> {}, metric_warnings |-> {},
     pulled |-> 0, scored |-> 0, trained |-> 0,
     start_epoch |-> 0, start_total_steps |-> 0, start_valid_tokens |-> 0,
     valid_toks |-> 0,
     ops |-> <<>>, start_iterations |-> 0, mark_iterations |-> 0,
     check_saves |-> 0]

\* The operations of the current iteration, in the order they were made.
Did(obs, done) == [obs EXCEPT !.ops = @ \o done]

\* ------------------------------------------------------------- dpo_train
TrainInit ==
    /\ cfg \in Configs
    /\ pc = "entry"
    /\ current_epoch = 0 /\ current_step = 0
    /\ total_steps = 0 /\ total_valid_tokens = 0
    /\ dpo_save_state = None
    /\ val_metrics = None
    /\ is_last_step = FALSE
    /\ should_save_by_timeout = FALSE
    /\ train_dataloader = FreshLoader
    /\ store = EmptyStore
    /\ done_steps = 0
    /\ written = <<>>
    /\ resumed = FALSE
    /\ observed = NothingObserved

\* Mutant: val_at_start alone decides.
RunsInitialValidationAlways(st) == cfg.val_at_start

\* Line 526: if val_at_start and total_steps == 0.
RunsInitialValidation(st) == cfg.val_at_start /\ st[K_total_steps] = 0

\* Mutant: the token count always starts at 0.
RestoredValidTokensZero(st) == 0

\* Lines 514-516: dpo_save_state.get("total_valid_tokens", 0).
RestoredValidTokens(st) ==
    IF K_total_valid_tokens \in DOMAIN st THEN st[K_total_valid_tokens] ELSE 0

\* Lines 498-526: start the timeout tracker and take the progress counters
\* from the restored save state, or from the default one.
Entry ==
    /\ pc = "entry"
    /\ LET st == IF dpo_save_state = None
                 THEN _default_dpo_save_state ELSE dpo_save_state
       IN /\ dpo_save_state' = st
          /\ current_epoch' = st[K_epoch]
          /\ current_step' = st[K_step]
          /\ total_steps' = st[K_total_steps]
          /\ total_valid_tokens' = RestoredValidTokens(st)
          /\ observed' =
                [observed EXCEPT
                   !.start_iterations = @ + 1,
                   !.start_epoch = st[K_epoch],
                   !.start_total_steps = st[K_total_steps],
                   !.start_valid_tokens = RestoredValidTokens(st)]
          /\ pc' = IF RunsInitialValidation(st)
                   THEN "initial_validation" ELSE "prepare"
    /\ UNCHANGED <<cfg, val_metrics, is_last_step, should_save_by_timeout,
                   train_dataloader, store, done_steps, written, resumed>>

\* Lines 526-543: validate() at step 0.
InitialValidation ==
    /\ pc = "initial_validation"
    /\ observed' = [observed EXCEPT
                       !.initial_validation = TRUE,
                       !.validated = @ \cup PassedOver(cfg)]
    /\ IF MeetsNoneLoader(cfg)
       THEN /\ pc' = NoneLoaderError(cfg.val_period)
            /\ UNCHANGED val_metrics
       ELSE /\ val_metrics' = Some(validate(cfg.val_datasets, 0))
            /\ pc' = "prepare"
    /\ UNCHANGED <<cfg, current_epoch, current_step, total_steps,
                   total_valid_tokens, dpo_save_state, is_last_step,
                   should_save_by_timeout, train_dataloader, store,
                   done_steps, written, resumed>>

PrepareForTraining ==
    /\ pc = "prepare"
    /\ pc' = "while"
    /\ UNCHANGED <<cfg, observed, current_epoch, current_step, total_steps,
                   total_valid_tokens, dpo_save_state, val_metrics,
                   is_last_step, should_save_by_timeout, train_dataloader,
                   store, done_steps, written, resumed>>

\* Mutant: the loop tests the step ceiling only.
WhileConditionStepsOnly == total_steps < cfg.max_num_steps

\* Mutant: the loop tests the epoch ceiling only.
WhileConditionEpochsOnly == current_epoch < cfg.max_num_epochs

\* Lines 547-550.
WhileCondition ==
    current_epoch < cfg.max_num_epochs /\ total_steps < cfg.max_num_steps

\* The while test, and on entry to the body the iter() of the for loop.
WhileTest ==
    /\ pc = "while"
    /\ IF WhileCondition
       THEN /\ train_dataloader' = LoaderIter(train_dataloader)
            /\ pc' = "for"
       ELSE /\ pc' = "done"
            /\ UNCHANGED train_dataloader
    /\ UNCHANGED <<cfg, observed, current_epoch, current_step, total_steps,
                   total_valid_tokens, dpo_save_state, val_metrics,
                   is_last_step, should_save_by_timeout, store, done_steps,
                   written, resumed>>

\* Mutant: the augmenter takes a second batch while it has the first in hand.
LoaderNextPrefetch(dl) == [dl EXCEPT !.pos = dl.pos + 2]

\* Line 274: batch = next(dataloader_iter) moves the cursor by one batch.
LoaderNext(dl) == [dl EXCEPT !.pos = dl.pos + 1]

\* next() of the augmented stream (lines 272-300): one batch taken from the
\* loader, scored once by the reference policy and yielded, or StopIteration
\* and the end of the epoch (lines 735-736).
NextBatch ==
    /\ pc = "for"
    /\ IF train_dataloader.pos < cfg.len_train_dataloader
       THEN /\ train_dataloader' = LoaderNext(train_dataloader)
            /\ observed' = [observed EXCEPT !.pulled = @ + 1, !.scored = @ + 1,
                                              !.ops = <<>>]
            /\ val_metrics' = None
            /\ pc' = "train"
            /\ UNCHANGED <<current_epoch, current_step>>
       ELSE /\ current_epoch' = current_epoch + 1
            /\ current_step' = 0
            /\ pc' = "while"
            /\ UNCHANGED <<train_dataloader, val_metrics, observed>>
    /\ UNCHANGED <<cfg, total_steps, total_valid_tokens, dpo_save_state,
                   is_last_step, should_save_by_timeout, store, done_steps,
                   written, resumed>>

\* Mutant: the step goes on without its validation pass.
AfterTrainNoValidation == "account"

\* Lines 573-581: after the training step, validation when it is due.
AfterTrain == IF IsValStep THEN "validate" ELSE "account"

\* Lines 563-578: policy.train on the batch, then is_last_step.
TrainStep ==
    /\ pc = "train"
    /\ done_steps' = done_steps + 1
    /\ observed' = Did([observed EXCEPT !.trained = @ + 1], <<"train">>)
    /\ is_last_step' = IsLastStep
    /\ pc' = AfterTrain
    /\ UNCHANGED <<cfg, current_epoch, current_step, total_steps,
                   total_valid_tokens, dpo_save_state, val_metrics,
                   should_save_by_timeout, train_dataloader, store, written,
                   resumed>>

\* Lines 581-597: validate() at step total_steps + 1.
ValidateStep ==
    /\ pc = "validate"
    /\ observed' = Did([observed EXCEPT !.validated = @ \cup PassedOver(cfg)],
                       <<"validate">>)
    /\ IF MeetsNoneLoader(cfg)
       THEN /\ pc' = NoneLoaderError(cfg.val_period)
            /\ UNCHANGED val_metrics
       ELSE /\ val_metrics' = Some(validate(cfg.val_datasets, total_steps + 1))
            /\ pc' = "account"
    /\ UNCHANGED <<cfg, current_epoch, current_step, total_steps,
                   total_valid_tokens, dpo_save_state, is_last_step,
                   should_save_by_timeout, train_dataloader, store,
                   done_steps, written, resumed>>

\* Mutant: the iteration is not marked.
AccountOpsNoMark == <<"consumed_samples">>

\* Lines 611-614: the consumed_samples update, then timeout.mark_iteration().
AccountOps == <<"consumed_samples", "mark_iteration">>

NumberOf(ops, op) == Cardinality({i \in DOMAIN ops : ops[i] = op})

\* Lines 598-614: reduce the step's metrics, add its valid tokens, count the
\* consumed samples and mark the iteration.
Account ==
    /\ pc = "account"
    /\ \E global_valid_toks \in TokChoices :
          /\ total_valid_tokens' = total_valid_tokens + global_valid_toks
          /\ observed' =
                Did([observed EXCEPT
                       !.valid_toks = @ + global_valid_toks,
                       !.mark_iterations =
                          @ + NumberOf(AccountOps, "mark_iteration")],
                    AccountOps)
    /\ dpo_save_state' =
          [dpo_save_state EXCEPT
             ![K_consumed_samples] = @ + GlobalBatchSize]
    /\ pc' = "check_save"
    /\ UNCHANGED <<cfg, current_epoch, current_step, total_steps,
                   val_metrics, is_last_step, should_save_by_timeout,
                   train_dataloader, store, done_steps, written, resumed>>

\* Lines 616-627: timeout.check_save() is the tracker's answer, an input.
CheckSave ==
    /\ pc = "check_save"
    /\ \E check_save \in BOOLEAN :
          /\ should_save_by_timeout' = check_save
          /\ pc' = IF ShouldCheckpoint(check_save)
                   THEN "save_state" ELSE "advance"
    /\ observed' = Did([observed EXCEPT !.check_saves = @ + 1],
                       <<"check_save">>)
    /\ UNCHANGED <<cfg, current_epoch, current_step, total_steps,
                   total_valid_tokens, dpo_save_state, val_metrics,
                   is_last_step, train_dataloader, store, done_steps,
                   written, resumed>>

\* Lines 649-652: a metric_name is configured and is not a key of the save
\* state.
MetricMissing(state) ==
    cfg.metric_name # None /\ cfg.metric_name[1] \notin DOMAIN state

\* Mutant: a missing metric leaves the step without a checkpoint.
AfterMetricCheckSkips(missing) == IF missing THEN "advance" ELSE "init_tmp"

\* Lines 653-659: warnings.warn returns and the checkpoint is written.
AfterMetricCheck(missing) == "init_tmp"

\* Lines 628-657.
UpdateSaveState ==
    /\ pc = "save_state"
    /\ LET st == SaveStateForCheckpoint(dpo_save_state, val_metrics)
       IN /\ dpo_save_state' = st
          /\ observed' =
                IF MetricMissing(st)
                THEN [observed EXCEPT !.metric_warnings = @ \cup {total_steps + 1}]
                ELSE observed
          /\ pc' = AfterMetricCheck(MetricMissing(st))
    /\ UNCHANGED <<cfg, current_epoch, current_step, total_steps,
                   total_valid_tokens, val_metrics, is_last_step,
                   should_save_by_timeout, train_dataloader, store,
                   done_steps, written, resumed>>

LatestKey(st) == IF st.latest = None THEN 0 ELSE st.latest[1].key

\* Mutant: the staging location is keyed by the 0-based step count.
CheckpointStepZeroBased == total_steps

\* Line 662: the step number the staging location is opened under.
CheckpointStep == total_steps + 1

\* checkpointer.init_tmp_checkpoint(total_steps + 1, dpo_save_state, cfg)
InitTmpCheckpoint ==
    /\ pc = "init_tmp"
    /\ store' = [store EXCEPT !.tmp =
                   Some([key |-> CheckpointStep,
                         training_info |-> dpo_save_state,
                         policy |-> FALSE,
                         dataloader |-> None,
                         prior |-> LatestKey(store),
                         n |-> done_steps])]
    /\ pc' = "save_policy"
    /\ observed' = Did(observed, <<"init_tmp_checkpoint">>)
    /\ UNCHANGED <<cfg, current_epoch, current_step, total_steps,
                   total_valid_tokens, dpo_save_state, val_metrics,
                   is_last_step, should_save_by_timeout, train_dataloader,
                   done_steps, written, resumed>>

\* policy.save_checkpoint(weights, optimizer, tokenizer)
SavePolicy ==
    /\ pc = "save_policy"
    /\ store' = [store EXCEPT !.tmp = Some([store.tmp[1] EXCEPT !.policy = TRUE])]
    /\ pc' = "save_dataloader"
    /\ observed' = Did(observed, <<"save_checkpoint">>)
    /\ UNCHANGED <<cfg, current_epoch, current_step, total_steps,
                   total_valid_tokens, dpo_save_state, val_metrics,
                   is_last_step, should_save_by_timeout, train_dataloader,
                   done_steps, written, resumed>>

\* Mutant: the data-loader cursor is not written before the finalize.
SaveDataloaderSkipped ==
    /\ pc = "save_dataloader"
    /\ pc' = "finalize"
    /\ UNCHANGED <<cfg, observed, current_epoch, current_step, total_steps,
                   total_valid_tokens, dpo_save_state, val_metrics,
                   is_last_step, should_save_by_timeout, train_dataloader,
                   store, done_steps, written, resumed>>

\* torch.save(train_dataloader.state_dict(), ...)
SaveDataloader ==
    /\ pc = "save_dataloader"
    /\ store' = [store EXCEPT !.tmp =
                   Some([store.tmp[1] EXCEPT
                           !.dataloader = Some(train_dataloader.pos)])]
    /\ pc' = "finalize"
    /\ observed' = Did(observed, <<"save_dataloader">>)
    /\ UNCHANGED <<cfg, current_epoch, current_step, total_steps,
                   total_valid_tokens, dpo_save_state, val_metrics,
                   is_last_step, should_save_by_timeout, train_dataloader,
                   done_steps, written, resumed>>

\* checkpointer.finalize_checkpoint(checkpoint_path)
FinalizeCheckpoint ==
    /\ pc = "finalize"
    /\ store' = [latest |-> store.tmp, tmp |-> None]
    /\ written' = Append(written, store.tmp[1].key)
    /\ pc' = "advance"
    /\ observed' = Did(observed, <<"finalize_checkpoint">>)
    /\ UNCHANGED <<cfg, current_epoch, current_step, total_steps,
                   total_valid_tokens, dpo_save_state, val_metrics,
                   is_last_step, should_save_by_timeout, train_dataloader,
                   done_steps, resumed>>

\* Mutant: a timeout save does not end the run.
ReturnsAfterStepNoTimeout == total_steps + 1 >= cfg.max_num_steps

\* Lines 730-733: the two returns after a completed step.
ReturnsAfterStep ==
    should_save_by_timeout \/ total_steps + 1 >= cfg.max_num_steps

\* Lines 682-733: log, advance the counters, and return on a timeout save
\* or at the step ceiling.
Advance ==
    /\ pc = "advance"
    /\ current_step' = current_step + 1
    /\ total_steps' = total_steps + 1
    /\ pc' = IF ReturnsAfterStep THEN "done" ELSE "for"
    /\ observed' = Did(observed, <<"log_metrics", "advance">>)
    /\ UNCHANGED <<cfg, total_valid_tokens, current_epoch, dpo_save_state,
                   val_metrics, is_last_step, should_save_by_timeout,
                   train_dataloader, store, done_steps, written, resumed>>

\* The positions of a process that has ended: returned, killed, or stopped
\* by an exception.
Ended == {"done", "crashed", "AssertionError", "TypeError"}

\* The process dies: everything in memory is lost, the store is kept.
Crash ==
    /\ pc \notin Ended
    /\ pc' = "crashed"
    /\ current_epoch' = 0 /\ current_step' = 0
    /\ total_steps' = 0 /\ total_valid_tokens' = 0
    /\ dpo_save_state' = None
    /\ val_metrics' = None
    /\ is_last_step' = FALSE
    /\ should_save_by_timeout' = FALSE
    /\ train_dataloader' = FreshLoader
    /\ written' = <<>>
    /\ done_steps' = 0
    /\ resumed' = FALSE
    /\ observed' = NothingObserved
    /\ UNCHANGED <<cfg, store>>

\* setup() of a new process over the same store: the latest finalized
\* checkpoint, if any, gives the save state and the data-loader cursor.
Setup ==
    /\ pc \in Ended
    /\ pc' = "entry"
    /\ current_epoch' = 0 /\ current_step' = 0
    /\ total_steps' = 0 /\ total_valid_tokens' = 0
    /\ val_metrics' = None
    /\ is_last_step' = FALSE
    /\ should_save_by_timeout' = FALSE
    /\ written' = <<>>
    /\ store' = [store EXCEPT !.tmp = None]
    /\ IF store.latest = None
       THEN /\ dpo_save_state' = None
            /\ train_dataloader' = FreshLoader
            /\ done_steps' = 0
            /\ resumed' = FALSE
       ELSE /\ dpo_save_state' = store.latest[1].training_info
            /\ train_dataloader' =
                  [pos |-> store.latest[1].dataloader[1], restored |-> TRUE]
            /\ done_steps' = store.latest[1].n
            /\ resumed' = TRUE
    /\ observed' = NothingObserved
    /\ UNCHANGED cfg


\* ------------------------------------------------------------- validate_one_dataset
\* Metric values are rationals n/d; a division by zero that does not raise
\* gives 0/0, which stands for nan.
Rat(n, d) == [n |-> n, d |-> d]
RatAdd(a, b) == Rat(a.n * b.d + b.n * a.d, a.d * b.d)
RatMul(a, b) == Rat(a.n * b.n, a.d * b.d)
RatDiv(a, b) == Rat(a.n * b.d, a.d * b.n)
RatEq(a, b) == a.d # 0 /\ b.d # 0 /\ a.n * b.d = b.n * a.d

RECURSIVE SumSeq(_)
SumSeq(seq) == IF seq = <<>> THEN 0 ELSE Head(seq) + SumSeq(Tail(seq))

RECURSIVE RatSum(_)
RatSum(seq) ==
    IF seq = <<>> THEN Rat(0, 1) ELSE RatAdd(Head(seq), RatSum(Tail(seq)))

\* One micro-batch's metrics, from the pair <<value, samples>> the trainer
\* returned: the six loss-like metrics differ from one another, the three
\* denominators follow the sample count.
MbMetrics(mb) ==
    (<<"loss">> :> mb[1]) @@ (<<"sft", "loss">> :> mb[1] + 1)
      @@ (<<"preference", "loss">> :> 2 * mb[1]) @@ (<<"accuracy">> :> mb[2])
      @@ (<<"rewards", "chosen", "mean">> :> mb[1] + 2)
      @@ (<<"rewards", "rejected", "mean">> :> 3 * mb[1])
      @@ (<<"num", "valid", "samples">> :> mb[2])
      @@ (<<"global", "valid", "seqs">> :> mb[2] + 1)
      @@ (<<"global", "valid", "toks">> :> 4 * mb[2] + 2)

\* val_results["all_mb_metrics"][metric_name]: the list over micro-batches.
MbList(all_mb, metric_name) ==
    [i \in 1..Len(all_mb) |-> MbMetrics(all_mb[i])[metric_name]]

MeanReduced == {<<"global", "valid", "seqs">>, <<"global", "valid", "toks">>}

\* Mutant: every metric is reduced by mean.
ReductionAlwaysMean(metric_name, list) == Rat(SumSeq(list), Len(list))

\* Lines 402-409: np.mean for the two global_valid_* metrics, sum otherwise.
Reduction(metric_name, list) ==
    IF metric_name \in MeanReduced
    THEN Rat(SumSeq(list), Len(list))
    ELSE Rat(SumSeq(list), 1)

\* Lines 425-434: sum(value * weight for zip(values, weights)) / total.
WeightedMean(values, weights, total) ==
    LET k == IF Len(values) < Len(weights) THEN Len(values) ELSE Len(weights)
    IN RatDiv(RatSum([i \in 1..k |-> RatMul(values[i], weights[i])]), total)

WeightedMetrics ==
    MetricNames \ ({M_num_valid_samples} \cup MeanReduced)

EmptyLists == [m \in MetricNames |-> <<>>]

AllBatches ==
    UNION {[1..k -> MbValueChoices] : k \in 0..MaxMicroBatches}

ValStreams ==
    UNION {[1..k -> AllBatches] : k \in 0..MaxValStream}

VodInit ==
    /\ val_stream \in ValStreams
    /\ val_batches \in ValBatchesChoices
    /\ vod_pc = "loop"
    /\ batch_idx = 0
    /\ vod_val_metrics = EmptyLists
    /\ num_valid_batches = 0
    /\ vod_warnings = 0
    /\ policy_mode = "train"

VodIdle ==
    /\ val_stream = <<>>
    /\ val_batches = 0
    /\ vod_pc = "idle"
    /\ batch_idx = 0
    /\ vod_val_metrics = EmptyLists
    /\ num_valid_batches = 0
    /\ vod_warnings = 0
    /\ policy_mode = "train"

\* Mutant: the trainer is left in the mode the validation put it in.
prepare_for_training_skipped == policy_mode

\* Line 457: policy.prepare_for_training() puts the trainer in training mode.
prepare_for_training == "train"

\* Mutant: the break test is one batch late.
BreakAfterBatchLate(idx) == val_batches > 0 /\ idx >= val_batches

\* Mutant: only batches that returned metrics count toward the limit.
BreakAfterValidBatch(idx) ==
    val_batches > 0 /\ num_valid_batches' >= val_batches

\* Line 413: the break test at the end of the loop body.
BreakAfterBatch(idx) == val_batches > 0 /\ idx >= val_batches - 1

\* Lines 383-414: one turn of the for loop: take the next batch of the
\* stream, run the trainer in evaluation mode, collect, and test the break.
VodBatch ==
    /\ vod_pc = "loop"
    /\ batch_idx < Len(val_stream)
    /\ LET all_mb == val_stream[batch_idx + 1]
       IN /\ IF Len(all_mb) = 0
             THEN /\ vod_warnings' = vod_warnings + 1
                  /\ UNCHANGED <<vod_val_metrics, num_valid_batches>>
             ELSE /\ vod_val_metrics' =
                        [m \in MetricNames |->
                            Append(vod_val_metrics[m],
                                   Reduction(m, MbList(all_mb, m)))]
                  /\ num_valid_batches' = num_valid_batches + 1
                  /\ UNCHANGED vod_warnings
    /\ policy_mode' = "eval"
    /\ batch_idx' = batch_idx + 1
    /\ vod_pc' = IF BreakAfterBatch(batch_idx) THEN "aggregate" ELSE "loop"
    /\ UNCHANGED <<val_stream, val_batches>>

\* The stream is exhausted: the for loop ends.
VodExhausted ==
    /\ vod_pc = "loop"
    /\ batch_idx >= Len(val_stream)
    /\ vod_pc' = "aggregate"
    /\ UNCHANGED <<val_stream, val_batches, batch_idx, vod_val_metrics,
                   num_valid_batches, vod_warnings, policy_mode>>

\* Lines 416-443. Python numbers raise ZeroDivisionError on a zero total;
\* numpy scalars give nan instead.
VodAggregateValid ==
    /\ vod_pc = "aggregate"
    /\ num_valid_batches > 0
    /\ LET sum_num_valid_samples == RatSum(vod_val_metrics[M_num_valid_samples])
           agg == [m \in MetricNames |->
                     IF m = M_num_valid_samples THEN sum_num_valid_samples
                     ELSE IF m \in MeanReduced THEN RatSum(vod_val_metrics[m])
                     ELSE WeightedMean(vod_val_metrics[m],
                                       vod_val_metrics[M_num_valid_samples],
                                       sum_num_valid_samples)]
       IN IF sum_num_valid_samples.n = 0
          THEN \/ /\ vod_pc' = "ZeroDivisionError"
                  /\ UNCHANGED <<vod_val_metrics, policy_mode>>
               \/ /\ vod_pc' = "returned"
                  /\ vod_val_metrics' = agg
                  /\ policy_mode' = prepare_for_training
          ELSE /\ vod_pc' = "returned"
               /\ vod_val_metrics' = agg
               /\ policy_mode' = prepare_for_training
    /\ UNCHANGED <<val_stream, val_batches, batch_idx, num_valid_batches,
                   vod_warnings>>

\* Lines 444-457: no batch gave metrics.
VodAggregateEmpty ==
    /\ vod_pc = "aggregate"
    /\ num_valid_batches = 0
    /\ vod_warnings' = vod_warnings + 1
    /\ vod_val_metrics' = [m \in MetricNames |-> Rat(0, 1)]
    /\ policy_mode' = prepare_for_training
    /\ vod_pc' = "returned"
    /\ UNCHANGED <<val_stream, val_batches, batch_idx, num_valid_batches>>

\* ------------------------------------------------------------- add_ref_logprobs_to_data
RefConfigs ==
    [is_val : BOOLEAN,
     dp_size : DpSizeChoices,
     val_micro_batch_size : MicroBatchSizeChoices,
     train_micro_batch_size : MicroBatchSizeChoices,
     seq_len : 1..MaxSeqLen]

RefStreams ==
    UNION {[1..k -> 1..MaxBatchSize] : k \in 0..MaxRefStream}

\* Mutant: the micro-batch size is not doubled for the chosen/rejected pairs.
micro_batch_size_undoubled(c) ==
    IF c.is_val THEN c.val_micro_batch_size ELSE c.train_micro_batch_size

\* Lines 276-280.
micro_batch_size(c) ==
    IF c.is_val
    THEN c.val_micro_batch_size * 2
    ELSE c.train_micro_batch_size * 2

\* Line 285.
IsPartialBatch(size, c) == size % (c.dp_size * micro_batch_size(c)) # 0

\* maybe_pad_last_batch: the batch grown to the next multiple of
\* dp_size * micro_batch_size.
maybe_pad_last_batch(size, dp_size, mbs) ==
    ((size + dp_size * mbs - 1) \div (dp_size * mbs)) * (dp_size * mbs)

\* policy.get_reference_policy_logprobs: one row per batch row, one value per
\* position, every value different from the others.
get_reference_policy_logprobs(size, seq_len) ==
    [r \in 1..size |-> [i \in 1..seq_len |-> 10 * r + i]]

\* torch.roll of one row along its only axis: the element at position i moves
\* to position i + shifts, wrapping around (positions 1..Len here).
roll(row, shifts) ==
    [i \in 1..Len(row) |-> row[((i - 1 - shifts) % Len(row)) + 1]]

\* Mutant: the log-probabilities are rolled to the right.
RolledLogprobsRight(logprobs) ==
    [r \in 1..Len(logprobs) |-> roll(logprobs[r], 1)]

\* Line 298: torch.roll(logprobs, -1, dims=-1).
RolledLogprobs(logprobs) ==
    [r \in 1..Len(logprobs) |-> roll(logprobs[r], -1)]

RefInit ==
    /\ ref_cfg \in RefConfigs
    /\ ref_dataloader \in RefStreams
    /\ ref_pc = "ready"
    /\ ref_pulled = 0
    /\ ref_calls = 0
    /\ ref_batch = None

RefIdle ==
    /\ ref_cfg = [is_val |-> FALSE, dp_size |-> 1, val_micro_batch_size |-> 1,
                  train_micro_batch_size |-> 1, seq_len |-> 1]
    /\ ref_dataloader = <<>>
    /\ ref_pc = "idle"
    /\ ref_pulled = 0
    /\ ref_calls = 0
    /\ ref_batch = None

\* The consumer asks for the next batch and the upstream stream has one:
\* a partial batch is padded (validation) or fatal (training); the batch is
\* scored once, the scores are rolled and attached, and the batch is yielded.
RefYield ==
    /\ ref_pc \in {"ready", "yielded"}
    /\ ref_pulled < Len(ref_dataloader)
    /\ ref_pulled' = ref_pulled + 1
    /\ LET size == ref_dataloader[ref_pulled + 1]
           mbs == micro_batch_size(ref_cfg)
       IN IF IsPartialBatch(size, ref_cfg) /\ ~ref_cfg.is_val
          THEN /\ ref_pc' = "AssertionError"
               /\ ref_batch' = Some([size |-> size, upstream_size |-> size,
                                     logprobs |-> <<>>,
                                     reference_policy_logprobs |-> <<>>])
               /\ UNCHANGED ref_calls
          ELSE LET padded == IF IsPartialBatch(size, ref_cfg)
                             THEN maybe_pad_last_batch(size, ref_cfg.dp_size, mbs)
                             ELSE size
                   logprobs ==
                       get_reference_policy_logprobs(padded, ref_cfg.seq_len)
               IN /\ ref_pc' = "yielded"
                  /\ ref_calls' = ref_calls + 1
                  /\ ref_batch' =
                        Some([size |-> padded, upstream_size |-> size,
                              logprobs |-> logprobs,
                              reference_policy_logprobs |->
                                  RolledLogprobs(logprobs)])
    /\ UNCHANGED <<ref_cfg, ref_dataloader>>

\* StopIteration from the upstream stream ends the generator.
RefStop ==
    /\ ref_pc \in {"ready", "yielded"}
    /\ ref_pulled >= Len(ref_dataloader)
    /\ ref_pc' = "exhausted"
    /\ UNCHANGED <<ref_cfg, ref_dataloader, ref_pulled, ref_calls, ref_batch>>

\* ------------------------------------------------------------- setup
SetupConfigs ==
    [dynamic_batching : BOOLEAN,
     sequence_packing : BOOLEAN,
     has_checkpoint : BOOLEAN,
     val_dataset : ValDatasetChoices,
     megatron : BOOLEAN]

SetupInit ==
    /\ setup_cfg \in SetupConfigs
    /\ setup_pc = "assert_dynamic_batching"
    /\ setup_effects = <<>>

SetupIdle ==
    /\ setup_cfg = [dynamic_batching |-> FALSE, sequence_packing |-> FALSE,
                    has_checkpoint |-> FALSE, val_dataset |-> {},
                    megatron |-> FALSE]
    /\ setup_pc = "idle"
    /\ setup_effects = <<>>

\* Mutant: the assertions are compiled away.
AssertNotEnabledSkipped(enabled) == TRUE

\* assert not master_config["policy"][...]["enabled"]
AssertNotEnabled(enabled) == ~enabled

\* Lines 129-132.
SetupAssertDynamicBatching ==
    /\ setup_pc = "assert_dynamic_batching"
    /\ setup_pc' = IF AssertNotEnabled(setup_cfg.dynamic_batching)
                   THEN "assert_sequence_packing" ELSE "AssertionError"
    /\ UNCHANGED <<setup_cfg, setup_effects>>

\* Lines 133-136.
SetupAssertSequencePacking ==
    /\ setup_pc = "assert_sequence_packing"
    /\ setup_pc' = IF AssertNotEnabled(setup_cfg.sequence_packing)
                   THEN "set_seed" ELSE "AssertionError"
    /\ UNCHANGED <<setup_cfg, setup_effects>>

\* Line 138.
SetupSetSeed ==
    /\ setup_pc = "set_seed"
    /\ setup_effects' = Append(setup_effects, "set_seed")
    /\ setup_pc' = "logger"
    /\ UNCHANGED setup_cfg

\* Lines 150-151.
SetupLogger ==
    /\ setup_pc = "logger"
    /\ setup_effects' = setup_effects \o <<"Logger", "log_hyperparams">>
    /\ setup_pc' = "checkpointing"
    /\ UNCHANGED setup_cfg

\* Lines 156-160: look up the latest checkpoint and read its training info.
SetupCheckpointing ==
    /\ setup_pc = "checkpointing"
    /\ setup_effects' =
          setup_effects \o <<"CheckpointManager", "get_latest_checkpoint_path",
                             "load_training_info">>
    /\ setup_pc' = "train_dataloader"
    /\ UNCHANGED setup_cfg

\* Lines 166-186: build the training loader and restore its cursor if a
\* checkpoint was found.
SetupTrainDataloader ==
    /\ setup_pc = "train_dataloader"
    /\ setup_effects' =
          setup_effects \o <<"train_dataloader">>
            \o (IF setup_cfg.has_checkpoint
                THEN <<"load_state_dict">> ELSE <<>>)
    /\ setup_pc' = "val_dataloader"
    /\ UNCHANGED setup_cfg

\* Lines 188-205: one loader per item of val_dataset, in the dict's order.
SetupValDataloader ==
    /\ setup_pc = "val_dataloader"
    /\ setup_effects' =
          setup_effects
            \o SelectSeq([i \in DOMAIN DatasetOrder |->
                             <<"val_dataloader", DatasetOrder[i]>>],
                         LAMBDA e : e[2] \in setup_cfg.val_dataset)
    /\ setup_pc' = "cluster"
    /\ UNCHANGED setup_cfg

\* Lines 211-218.
SetupCluster ==
    /\ setup_pc = "cluster"
    /\ setup_effects' = Append(setup_effects, "RayVirtualCluster")
    /\ setup_pc' = "policy"
    /\ UNCHANGED setup_cfg

\* Lines 224-267: double the Megatron iteration counts if Megatron is
\* enabled, create the policy and the loss function, and return.
SetupPolicy ==
    /\ setup_pc = "policy"
    /\ setup_effects' =
          setup_effects
            \o (IF setup_cfg.megatron THEN <<"train_iters">> ELSE <<>>)
            \o <<"Policy", "DPOLossFn">>
    /\ setup_pc' = "returned"
    /\ UNCHANGED setup_cfg

\* ------------------------------------------------------------- per-step metrics
\* The keys of the step's metrics dict: loss and grad_norm of train_results
\* and the fields of its all_mb_metrics.
StepMetricKeys ==
    {"loss", "grad_norm", "lr", "wd", "global_valid_seqs", "global_valid_toks",
     "num_valid_samples", "accuracy"}

StepValueChoices == {0, 1, 2}

StepValueLists ==
    UNION {[1..k -> StepValueChoices] : k \in 1..MaxMicroBatches}

\* Mutant: only the two global_valid_* fields are reduced by mean.
StepMeanKeysGlobalOnly == {"global_valid_seqs", "global_valid_toks"}

\* Line 604: the keys reduced by np.mean.
StepMeanKeys == {"lr", "wd", "global_valid_seqs", "global_valid_toks"}

\* Lines 603-607: np.mean(v).item() or np.sum(v).item().
ReduceStepMetric(k, v) ==
    IF k \in StepMeanKeys
    THEN Rat(SumSeq(v), Len(v))
    ELSE Rat(SumSeq(v), 1)

ReduceInit ==
    /\ reduce_pc = "loop"
    /\ metric_key \in StepMetricKeys
    /\ metric_values \in StepValueLists
    /\ reduced = None

ReduceIdle ==
    /\ reduce_pc = "idle"
    /\ metric_key = "loss"
    /\ metric_values = <<0>>
    /\ reduced = None

\* One turn of the loop over metrics.items().
ReduceMetric ==
    /\ reduce_pc = "loop"
    /\ reduced' = Some(ReduceStepMetric(metric_key, metric_values))
    /\ reduce_pc' = "reduced"
    /\ UNCHANGED <<metric_key, metric_values>>

\* ------------------------------------------------------------- Penguin
\* penguin.py, _postprocess_penguin_to_nemo_rl_result. An output item either
\* carries prompt_token_ids, generation_token_ids and generation_log_probs
\* or none of them.
Tokens == {1, 2}

GenerationLengths == {0, 1}

TokenSeqs(lengths) == UNION {[1..k -> Tokens] : k \in lengths}

LogProbs(generation) == [i \in DOMAIN generation |-> 0 - generation[i]]

TrainableItems ==
    {[prompt_token_ids |-> p,
      generation_token_ids |-> g,
      generation_log_probs |-> LogProbs(g)] :
        p \in TokenSeqs(0..MaxPromptLen), g \in TokenSeqs(GenerationLengths)}

OtherItem == [type |-> "function_call_output"]

OutputItems == TrainableItems \cup {OtherItem}

\* seq[:n] and seq[n:] of a Python list, n >= 0.
SliceTo(seq, n) == SubSeq(seq, 1, IF n < Len(seq) THEN n ELSE Len(seq))
SliceFrom(seq, n) == SubSeq(seq, n + 1, Len(seq))

\* Mutant: the user message carries the whole prompt.
UserTokenIdsWhole(item, seen) == item.prompt_token_ids

\* Lines 131-133: prompt_token_ids[len(seen_token_ids):].
UserTokenIds(item, seen) == SliceFrom(item.prompt_token_ids, Len(seen))

PenguinInit ==
    /\ penguin_pc = "loop"
    /\ output_items = <<>>
    /\ nemo_rl_message_log = <<>>
    /\ seen_token_ids = <<>>
    /\ nemo_rl_result = None

PenguinIdle ==
    /\ penguin_pc = "idle"
    /\ output_items = <<>>
    /\ nemo_rl_message_log = <<>>
    /\ seen_token_ids = <<>>
    /\ nemo_rl_result = None

\* Lines 110-146: one turn of the loop over the output items.
PenguinItem ==
    /\ penguin_pc = "loop"
    /\ Len(output_items) < MaxOutputItems
    /\ \E output_item_dict \in OutputItems :
          /\ output_items' = Append(output_items, output_item_dict)
          /\ IF "generation_token_ids" \notin DOMAIN output_item_dict
             THEN UNCHANGED <<penguin_pc, nemo_rl_message_log, seen_token_ids>>
             ELSE IF seen_token_ids
                       # SliceTo(output_item_dict.prompt_token_ids,
                                 Len(seen_token_ids))
             THEN /\ penguin_pc' = "AssertionError"
                  /\ UNCHANGED <<nemo_rl_message_log, seen_token_ids>>
             ELSE LET user ==
                        [role |-> "user", content |-> "",
                         token_ids |-> UserTokenIds(output_item_dict,
                                                    seen_token_ids)]
                      assistant ==
                        [role |-> "assistant", content |-> "",
                         token_ids |-> output_item_dict.generation_token_ids,
                         generation_logprobs |->
                            output_item_dict.generation_log_probs]
                  IN /\ nemo_rl_message_log' =
                           nemo_rl_message_log \o <<user, assistant>>
                     /\ seen_token_ids' =
                           seen_token_ids \o user.token_ids \o assistant.token_ids
                     /\ UNCHANGED penguin_pc
    /\ UNCHANGED nemo_rl_result

\* Lines 148-152: the output is exhausted.
PenguinReturn ==
    /\ penguin_pc = "loop"
    /\ nemo_rl_result' =
          Some([message_log |-> nemo_rl_message_log,
                input_message_log |-> SliceTo(nemo_rl_message_log, 1),
                full_result |-> output_items])
    /\ penguin_pc' = "returned"
    /\ UNCHANGED <<output_items, nemo_rl_message_log, seen_token_ids>>

\* ------------------------------------------------------------- format_dpo_chatml
\* dpo_chatml.py. A message is a dict, kept as its items in insertion order;
\* a conversation is a list of messages.
Roles == {"user", "assistant"}

ContentChoices == {"a", "b"}

Messages ==
    {<<<<"role", r>>, <<"content", c>>>> : r \in Roles, c \in ContentChoices}
      \cup {<<<<"content", c>>, <<"role", r>>>> : r \in Roles, c \in ContentChoices}

Conversations == UNION {[1..k -> Messages] : k \in 0..MaxConversationLen}

\* message[key]
Item(message, key) ==
    message[CHOOSE i \in DOMAIN message : message[i][1] = key][2]

\* conversation[:-1]
AllButLast(conversation) ==
    IF conversation = <<>> THEN <<>>
    ELSE SubSeq(conversation, 1, Len(conversation) - 1)

\* json.dumps of a dict: its items in insertion order.
RECURSIVE DumpItems(_)
DumpItems(items) ==
    IF items = <<>> THEN <<>>
    ELSE <<Head(items)[1], ":", Head(items)[2]>>
           \o (IF Tail(items) = <<>> THEN <<>> ELSE <<",">>)
           \o DumpItems(Tail(items))

RECURSIVE DumpList(_)
DumpList(conversation) ==
    IF conversation = <<>> THEN <<>>
    ELSE <<"{">> \o DumpItems(Head(conversation)) \o <<"}">>
           \o (IF Tail(conversation) = <<>> THEN <<>> ELSE <<",">>)
           \o DumpList(Tail(conversation))

\* json.dumps(conversation, ensure_ascii=False)
json_dumps(conversation) == <<"[">> \o DumpList(conversation) \o <<"]">>

\* Line 32.
context == AllButLast(data.chosen)

FormatInit ==
    /\ format_pc = "assert_context"
    /\ data \in [chosen : Conversations, rejected : Conversations]
    /\ formatted = None

FormatIdle ==
    /\ format_pc = "idle"
    /\ data = [chosen |-> <<>>, rejected |-> <<>>]
    /\ formatted = None

\* conversation[-1]["role"] == "assistant", on a list that may be empty.
LastRoleTest(conversation, passed) ==
    IF conversation = <<>> THEN "IndexError"
    ELSE IF Item(conversation[Len(conversation)], "role") = "assistant"
    THEN passed
    ELSE "AssertionError"

\* Lines 36-40.
FormatAssertContext ==
    /\ format_pc = "assert_context"
    /\ format_pc' =
          IF json_dumps(context) = json_dumps(AllButLast(data.rejected))
          THEN "assert_chosen" ELSE "AssertionError"
    /\ UNCHANGED <<data, formatted>>

\* Lines 43-45.
FormatAssertChosen ==
    /\ format_pc = "assert_chosen"
    /\ format_pc' = LastRoleTest(data.chosen, "assert_rejected")
    /\ UNCHANGED <<data, formatted>>

\* Lines 46-48.
FormatAssertRejected ==
    /\ format_pc = "assert_rejected"
    /\ format_pc' = LastRoleTest(data.rejected, "return")
    /\ UNCHANGED <<data, formatted>>

\* Lines 50-57.
FormatReturn ==
    /\ format_pc = "return"
    /\ formatted' =
          Some([prompt |-> context,
                chosen_response |->
                   Item(data.chosen[Len(data.chosen)], "content"),
                rejected_response |->
                   Item(data.rejected[Len(data.rejected)], "content")])
    /\ format_pc' = "returned"
    /\ UNCHANGED data

\* dpo_train is not running.
TrainIdle ==
    /\ cfg = [max_num_epochs |-> 1, max_num_steps |-> 2, val_period |-> 0,
              val_at_start |-> FALSE, val_datasets |-> {}, enabled |-> FALSE,
              save_period |-> 2, len_train_dataloader |-> 1,
              none_loaders |-> {}, metric_name |-> None]
    /\ pc = "idle"
    /\ current_epoch = 0 /\ current_step = 0
    /\ total_steps = 0 /\ total_valid_tokens = 0
    /\ dpo_save_state = None
    /\ val_metrics = None
    /\ is_last_step = FALSE
    /\ should_save_by_timeout = FALSE
    /\ train_dataloader = FreshLoader
    /\ store = EmptyStore
    /\ done_steps = 0
    /\ written = <<>>
    /\ resumed = FALSE
    /\ observed = NothingObserved

vars ==
    <<trainVars, vodVars, refVars, setupVars, reduceVars, penguinVars,
      formatVars>>

\* The training loop with its checkpoints, crashes and resumes.
Init ==
    TrainInit /\ VodIdle /\ RefIdle /\ SetupIdle /\ ReduceIdle /\ PenguinIdle
      /\ FormatIdle
Next ==
    \/ Entry /\ UNCHANGED <<vodVars, refVars, setupVars,
                            reduceVars, penguinVars,
      formatVars>>
    \/ InitialValidation /\ UNCHANGED <<vodVars, refVars, setupVars,
                                        reduceVars, penguinVars,
      formatVars>>
    \/ PrepareForTraining /\ UNCHANGED <<vodVars, refVars, setupVars,
                                         reduceVars, penguinVars,
      formatVars>>
    \/ WhileTest /\ UNCHANGED <<vodVars, refVars, setupVars,
                                reduceVars, penguinVars,
      formatVars>>
    \/ NextBatch /\ UNCHANGED <<vodVars, refVars, setupVars,
                                reduceVars, penguinVars,
      formatVars>>
    \/ TrainStep /\ UNCHANGED <<vodVars, refVars, setupVars,
                                reduceVars, penguinVars,
      formatVars>>
    \/ ValidateStep /\ UNCHANGED <<vodVars, refVars, setupVars,
                                   reduceVars, penguinVars,
      formatVars>>
    \/ Account /\ UNCHANGED <<vodVars, refVars, setupVars,
                              reduceVars, penguinVars,
      formatVars>>
    \/ CheckSave /\ UNCHANGED <<vodVars, refVars, setupVars,
                                reduceVars, penguinVars,
      formatVars>>
    \/ UpdateSaveState /\ UNCHANGED <<vodVars, refVars, setupVars,
                                      reduceVars, penguinVars,
      formatVars>>
    \/ InitTmpCheckpoint /\ UNCHANGED <<vodVars, refVars, setupVars,
                                        reduceVars, penguinVars,
      formatVars>>
    \/ SavePolicy /\ UNCHANGED <<vodVars, refVars, setupVars,
                                 reduceVars, penguinVars,
      formatVars>>
    \/ SaveDataloader /\ UNCHANGED <<vodVars, refVars, setupVars,
                                     reduceVars, penguinVars,
      formatVars>>
    \/ FinalizeCheckpoint /\ UNCHANGED <<vodVars, refVars, setupVars,
                                         reduceVars, penguinVars,
      formatVars>>
    \/ Advance /\ UNCHANGED <<vodVars, refVars, setupVars,
                              reduceVars, penguinVars,
      formatVars>>
    \/ Crash /\ UNCHANGED <<vodVars, refVars, setupVars,
                            reduceVars, penguinVars,
      formatVars>>
    \/ Setup /\ UNCHANGED <<vodVars, refVars, setupVars,
                            reduceVars, penguinVars,
      formatVars>>
Spec == Init /\ [][Next]_vars

\* One call of dpo_train from a fresh start, which is never killed: a
\* sequential program that is not blocked takes its next step.
NextRun ==
    \/ Entry /\ UNCHANGED <<vodVars, refVars, setupVars,
                            reduceVars, penguinVars,
      formatVars>>
    \/ InitialValidation /\ UNCHANGED <<vodVars, refVars, setupVars,
                                        reduceVars, penguinVars,
      formatVars>>
    \/ PrepareForTraining /\ UNCHANGED <<vodVars, refVars, setupVars,
                                         reduceVars, penguinVars,
      formatVars>>
    \/ WhileTest /\ UNCHANGED <<vodVars, refVars, setupVars,
                                reduceVars, penguinVars,
      formatVars>>
    \/ NextBatch /\ UNCHANGED <<vodVars, refVars, setupVars,
                                reduceVars, penguinVars,
      formatVars>>
    \/ TrainStep /\ UNCHANGED <<vodVars, refVars, setupVars,
                                reduceVars, penguinVars,
      formatVars>>
    \/ ValidateStep /\ UNCHANGED <<vodVars, refVars, setupVars,
                                   reduceVars, penguinVars,
      formatVars>>
    \/ Account /\ UNCHANGED <<vodVars, refVars, setupVars,
                              reduceVars, penguinVars,
      formatVars>>
    \/ CheckSave /\ UNCHANGED <<vodVars, refVars, setupVars,
                                reduceVars, penguinVars,
      formatVars>>
    \/ UpdateSaveState /\ UNCHANGED <<vodVars, refVars, setupVars,
                                      reduceVars, penguinVars,
      formatVars>>
    \/ InitTmpCheckpoint /\ UNCHANGED <<vodVars, refVars, setupVars,
                                        reduceVars, penguinVars,
      formatVars>>
    \/ SavePolicy /\ UNCHANGED <<vodVars, refVars, setupVars,
                                 reduceVars, penguinVars,
      formatVars>>
    \/ SaveDataloader /\ UNCHANGED <<vodVars, refVars, setupVars,
                                     reduceVars, penguinVars,
      formatVars>>
    \/ FinalizeCheckpoint /\ UNCHANGED <<vodVars, refVars, setupVars,
                                         reduceVars, penguinVars,
      formatVars>>
    \/ Advance /\ UNCHANGED <<vodVars, refVars, setupVars,
                              reduceVars, penguinVars,
      formatVars>>
SpecRun == Init /\ [][NextRun]_vars /\ WF_vars(NextRun)

\* The same loop over the configurations of OptionConfigs.
InitOptions ==
    /\ cfg \in OptionConfigs
    /\ pc = "entry"
    /\ current_epoch = 0 /\ current_step = 0
    /\ total_steps = 0 /\ total_valid_tokens = 0
    /\ dpo_save_state = None
    /\ val_metrics = None
    /\ is_last_step = FALSE
    /\ should_save_by_timeout = FALSE
    /\ train_dataloader = FreshLoader
    /\ store = EmptyStore
    /\ done_steps = 0
    /\ written = <<>>
    /\ resumed = FALSE
    /\ observed = NothingObserved
    /\ VodIdle /\ RefIdle /\ SetupIdle /\ ReduceIdle /\ PenguinIdle
      /\ FormatIdle
SpecOptions == InitOptions /\ [][Next]_vars

\* A call of dpo_train in a directory that may already hold a checkpoint:
\* one written after `k` steps over a loader of the same length, by a run
\* with limits of its own, and by code that may not have recorded
\* total_valid_tokens yet.
FoundSteps == 1..(MaxEpochs * MaxBatches)

FoundTrainingInfo(k, len, with_tokens) ==
    LET info == (K_epoch :> (k - 1) \div len) @@ (K_step :> k % len)
                  @@ (K_total_steps :> k)
                  @@ (K_consumed_samples :> k * GlobalBatchSize)
    IN IF with_tokens THEN info @@ (K_total_valid_tokens :> k) ELSE info

FoundCheckpoint(k, len, with_tokens) ==
    [key |-> k,
     training_info |-> FoundTrainingInfo(k, len, with_tokens),
     policy |-> TRUE,
     dataloader |-> Some(IF k % len = 0 THEN len ELSE k % len),
     prior |-> 0,
     n |-> k]

ResumeConfigs ==
    [max_num_epochs : 1..MaxEpochs,
     max_num_steps : MaxNumStepsChoices,
     val_period : ValPeriodChoices,
     val_at_start : BOOLEAN,
     val_datasets : {{"A"}},
     enabled : {TRUE},
     save_period : SavePeriodChoices,
     len_train_dataloader : 1..MaxBatches,
     none_loaders : {{}},
     metric_name : {None}]

\* Lines 156-186 of setup: the save state and the loader's cursor come from
\* the latest checkpoint when there is one.
InitResume ==
    /\ cfg \in ResumeConfigs
    /\ pc = "entry"
    /\ current_epoch = 0 /\ current_step = 0
    /\ total_steps = 0 /\ total_valid_tokens = 0
    /\ val_metrics = None
    /\ is_last_step = FALSE
    /\ should_save_by_timeout = FALSE
    /\ written = <<>>
    /\ observed = NothingObserved
    /\ \/ /\ store = EmptyStore
          /\ dpo_save_state = None
          /\ train_dataloader = FreshLoader
          /\ done_steps = 0
          /\ resumed = FALSE
       \/ \E k \in FoundSteps, with_tokens \in BOOLEAN :
             LET found == FoundCheckpoint(k, cfg.len_train_dataloader, with_tokens)
             IN /\ store = [latest |-> Some(found), tmp |-> None]
                /\ dpo_save_state = found.training_info
                /\ train_dataloader =
                      [pos |-> found.dataloader[1], restored |-> TRUE]
                /\ done_steps = found.n
                /\ resumed = TRUE
    /\ VodIdle /\ RefIdle /\ SetupIdle /\ ReduceIdle /\ PenguinIdle
      /\ FormatIdle
SpecResume == InitResume /\ [][Next]_vars

\* One call of validate_one_dataset over every bounded validation stream.
InitValidate ==
    VodInit /\ TrainIdle /\ RefIdle /\ SetupIdle /\ ReduceIdle /\ PenguinIdle
      /\ FormatIdle
NextValidate ==
    \/ VodBatch /\ UNCHANGED <<trainVars, refVars, setupVars,
                               reduceVars, penguinVars,
      formatVars>>
    \/ VodExhausted /\ UNCHANGED <<trainVars, refVars, setupVars,
                                   reduceVars, penguinVars,
      formatVars>>
    \/ VodAggregateValid /\ UNCHANGED <<trainVars, refVars, setupVars,
                                        reduceVars, penguinVars,
      formatVars>>
    \/ VodAggregateEmpty /\ UNCHANGED <<trainVars, refVars, setupVars,
                                        reduceVars, penguinVars,
      formatVars>>
SpecValidate == InitValidate /\ [][NextValidate]_vars

\* One augmented stream over every bounded upstream stream and configuration.
InitRef ==
    RefInit /\ TrainIdle /\ VodIdle /\ SetupIdle /\ ReduceIdle /\ PenguinIdle
      /\ FormatIdle
NextRef ==
    \/ RefYield /\ UNCHANGED <<trainVars, vodVars, setupVars,
                               reduceVars, penguinVars,
      formatVars>>
    \/ RefStop /\ UNCHANGED <<trainVars, vodVars, setupVars,
                              reduceVars, penguinVars,
      formatVars>>
SpecRef == InitRef /\ [][NextRef]_vars

\* One call of setup over every combination of its switches.
InitSetup ==
    SetupInit /\ TrainIdle /\ VodIdle /\ RefIdle /\ ReduceIdle /\ PenguinIdle
      /\ FormatIdle
NextSetup ==
    \/ SetupAssertDynamicBatching /\ UNCHANGED <<trainVars, vodVars, refVars,
                                                 reduceVars, penguinVars,
      formatVars>>
    \/ SetupAssertSequencePacking /\ UNCHANGED <<trainVars, vodVars, refVars,
                                                 reduceVars, penguinVars,
      formatVars>>
    \/ SetupSetSeed /\ UNCHANGED <<trainVars, vodVars, refVars,
                                   reduceVars, penguinVars,
      formatVars>>
    \/ SetupLogger /\ UNCHANGED <<trainVars, vodVars, refVars,
                                  reduceVars, penguinVars,
      formatVars>>
    \/ SetupCheckpointing /\ UNCHANGED <<trainVars, vodVars, refVars,
                                         reduceVars, penguinVars,
      formatVars>>
    \/ SetupTrainDataloader /\ UNCHANGED <<trainVars, vodVars, refVars,
                                           reduceVars, penguinVars,
      formatVars>>
    \/ SetupValDataloader /\ UNCHANGED <<trainVars, vodVars, refVars,
                                         reduceVars, penguinVars,
      formatVars>>
    \/ SetupCluster /\ UNCHANGED <<trainVars, vodVars, refVars,
                                   reduceVars, penguinVars,
      formatVars>>
    \/ SetupPolicy /\ UNCHANGED <<trainVars, vodVars, refVars,
                                  reduceVars, penguinVars,
      formatVars>>
SpecSetup == InitSetup /\ [][NextSetup]_vars

\* The reduction of one metric of a step, over every key and bounded list.
InitReduce ==
    ReduceInit /\ TrainIdle /\ VodIdle /\ RefIdle /\ SetupIdle /\ PenguinIdle
      /\ FormatIdle
NextReduce ==
    \/ ReduceMetric /\ UNCHANGED <<trainVars, vodVars, refVars, setupVars,
                                   penguinVars,
      formatVars>>
SpecReduce == InitReduce /\ [][NextReduce]_vars

\* One call of _postprocess_penguin_to_nemo_rl_result over every bounded
\* sequence of output items.
InitPenguin ==
    PenguinInit /\ TrainIdle /\ VodIdle /\ RefIdle /\ SetupIdle /\ ReduceIdle
      /\ FormatIdle
NextPenguin ==
    \/ PenguinItem /\ UNCHANGED <<trainVars, vodVars, refVars, setupVars,
                                  reduceVars,
      formatVars>>
    \/ PenguinReturn /\ UNCHANGED <<trainVars, vodVars, refVars, setupVars,
                                    reduceVars,
      formatVars>>
SpecPenguin == InitPenguin /\ [][NextPenguin]_vars

\* One call of format_dpo_chatml over every bounded pair of conversations.
InitFormat ==
    FormatInit /\ TrainIdle /\ VodIdle /\ RefIdle /\ SetupIdle /\ ReduceIdle
      /\ PenguinIdle
NextFormat ==
    \/ FormatAssertContext /\ UNCHANGED <<trainVars, vodVars, refVars,
                                          setupVars, reduceVars, penguinVars>>
    \/ FormatAssertChosen /\ UNCHANGED <<trainVars, vodVars, refVars,
                                         setupVars, reduceVars, penguinVars>>
    \/ FormatAssertRejected /\ UNCHANGED <<trainVars, vodVars, refVars,
                                           setupVars, reduceVars, penguinVars>>
    \/ FormatReturn /\ UNCHANGED <<trainVars, vodVars, refVars, setupVars,
                                   reduceVars, penguinVars>>
SpecFormat == InitFormat /\ [][NextFormat]_vars

\* ------------------------------------------------------------- claims
Last(seq) == seq[Len(seq)]

Checkpoints ==
    {store.latest[i] : i \in DOMAIN store.latest}
      \cup {store.tmp[i] : i \in DOMAIN store.tmp}

StagingPcs == {"save_policy", "save_dataloader", "finalize"}

AtStepBoundary ==
    pc \in {"initial_validation", "prepare", "while", "for", "done"}

\* C1: at every step boundary, after n training steps completed over the
\* whole run (a resume counts the steps of the checkpoint it starts from),
\* total_steps = n and consumed_samples = n * train_global_batch_size, and
\* every checkpoint staged or finalized records exactly these two values.
C1_StepAccounting ==
    /\ AtStepBoundary =>
          /\ total_steps = done_steps
          /\ dpo_save_state[K_consumed_samples] = done_steps * GlobalBatchSize
    /\ \A c \in Checkpoints :
          /\ c.training_info[K_total_steps] = c.n
          /\ c.training_info[K_consumed_samples] = c.n * GlobalBatchSize
          /\ c.key = c.n

C1_Witness ==
    /\ pc = "for" /\ resumed /\ done_steps >= 3
    /\ written # <<>> /\ Last(written) = done_steps

\* C2 as stated: every run that ends because check_save() returned true has
\* a finalized checkpoint whose total_steps is the number of steps completed.
C2_TimeoutAlwaysSaves ==
    (pc = "done" /\ should_save_by_timeout) =>
        /\ store.latest # None
        /\ store.latest[1].training_info[K_total_steps] = done_steps

\* C2 amended: once check_save() has returned true the process only stages
\* the checkpoint of that step, advances and returns, without another
\* training step; with checkpointing enabled the run ends with a finalized
\* checkpoint of exactly that step, with checkpointing disabled it ends
\* without writing any.
C2_TimeoutStops ==
    /\ should_save_by_timeout =>
          /\ pc \in {"save_state", "init_tmp", "advance", "done"} \cup StagingPcs
          /\ pc # "done" => total_steps + 1 = done_steps
    /\ (pc = "done" /\ should_save_by_timeout) =>
          /\ total_steps = done_steps
          /\ cfg.enabled =>
                /\ store.latest # None
                /\ store.latest[1].key = done_steps
                /\ store.latest[1].training_info[K_total_steps] = done_steps
                /\ written # <<>> /\ Last(written) = done_steps
          /\ ~cfg.enabled => written = <<>>

C2_Witness ==
    /\ pc = "done" /\ should_save_by_timeout /\ cfg.enabled
    /\ total_steps < cfg.max_num_steps
    /\ current_epoch + 1 < cfg.max_num_epochs
    /\ total_steps % cfg.save_period # 0
    /\ Last(written) = total_steps

\* C3: a fresh run with 2 epochs of 3 batches, max_num_steps = 100,
\* save_period = 2, checkpointing enabled and no timeout writes checkpoints
\* after exactly the global steps 2, 4 and 6 and ends with epoch = 2,
\* step = 0, total_steps = 6.
C3_Scenario ==
    /\ cfg.max_num_epochs = 2 /\ cfg.len_train_dataloader = 3
    /\ cfg.max_num_steps = 100 /\ cfg.save_period = 2 /\ cfg.enabled
    /\ ~resumed /\ ~should_save_by_timeout
    /\ pc \notin {"crashed", "entry"}

IsPrefix(s, t) == Len(s) <= Len(t) /\ s = SubSeq(t, 1, Len(s))

C3_EndToEnd ==
    C3_Scenario =>
        /\ IsPrefix(written, <<2, 4, 6>>)
        /\ \A i \in DOMAIN written : written[i] <= done_steps
        /\ (pc \in {"advance", "for", "while", "done"} /\ total_steps >= 1) =>
              Len(written) = (IF pc = "advance" THEN done_steps ELSE total_steps) \div 2
        /\ pc = "done" =>
              /\ written = <<2, 4, 6>>
              /\ current_epoch = 2 /\ current_step = 0 /\ total_steps = 6

C3_Witness ==
    C3_Scenario /\ pc = "done" /\ total_steps = 6 /\ Len(written) = 3

\* C4: after a completed step with 1-based global number s a checkpoint is
\* written iff checkpointing is enabled and s is a multiple of save_period,
\* or s >= max_num_steps, or the step is the last batch of the last epoch,
\* or check_save() returned true; never more than one per step; and with
\* checkpointing disabled the store is never touched.
TimesWritten(s) == Cardinality({i \in DOMAIN written : written[i] = s})

C4_CheckpointIff ==
    /\ pc = "advance" =>
          LET s == done_steps
          IN /\ TimesWritten(s) <= 1
             /\ TimesWritten(s) = 1 <=>
                  /\ cfg.enabled
                  /\ \/ s % cfg.save_period = 0
                     \/ s >= cfg.max_num_steps
                     \/ /\ current_epoch + 1 = cfg.max_num_epochs
                        /\ train_dataloader.pos = cfg.len_train_dataloader
                     \/ should_save_by_timeout
    /\ \A i, j \in DOMAIN written : i < j => written[i] < written[j]
    /\ ~cfg.enabled => store = EmptyStore /\ written = <<>>

C4_Witness ==
    /\ pc = "advance" /\ cfg.enabled /\ should_save_by_timeout /\ is_last_step
    /\ done_steps % cfg.save_period = 0
    /\ TimesWritten(done_steps) = 1

\* C5: a checkpoint is finalized only after the staging location holds the
\* training info, the policy (weights, optimizer, tokenizer) and the
\* data-loader cursor; while a staging location is open, and after a crash
\* that leaves one behind, the latest checkpoint is the one finalized before
\* the staging began, and every finalized checkpoint is complete.
Complete(c) ==
    /\ c.policy
    /\ c.dataloader # None
    /\ {K_epoch, K_step, K_total_steps, K_consumed_samples,
        K_total_valid_tokens} \subseteq DOMAIN c.training_info

C5_PublishAfterComplete ==
    /\ store.latest # None => Complete(store.latest[1])
    /\ store.tmp # None =>
          /\ LatestKey(store) = store.tmp[1].prior
          /\ LatestKey(store) < store.tmp[1].key
    /\ pc = "finalize" => store.tmp # None /\ Complete(store.tmp[1])
    /\ pc \in StagingPcs => store.tmp # None

C5_Witness ==
    /\ pc = "crashed" /\ store.tmp # None /\ store.tmp[1].policy
    /\ store.latest # None /\ Complete(store.latest[1])
    /\ store.latest[1].key < store.tmp[1].key

\* C6: a checkpoint written after global step s holds a validation metric
\* key other than a num_valid_samples denominator only if the validation
\* pass run at that same step s produced it.
PrunableKeys ==
    {ValKey(d, m) : d \in UNION ValDatasetChoices,
                    m \in MetricNames \ {M_num_valid_samples}}

ProducedAtStep(c, key) ==
    /\ cfg.val_period > 0 /\ c.key % cfg.val_period = 0
    /\ \E d \in cfg.val_datasets, m \in MetricNames : key = ValKey(d, m)
    /\ c.training_info[key] = c.key

C6_NoStaleValidationKeys ==
    \A c \in Checkpoints :
        \A key \in DOMAIN c.training_info \cap PrunableKeys :
            ProducedAtStep(c, key)

C6_Witness ==
    /\ store.latest # None /\ resumed
    /\ ValKey("A", M_num_valid_samples) \in DOMAIN store.latest[1].training_info
    /\ store.latest[1].training_info[ValKey("A", M_num_valid_samples)]
          < store.latest[1].key
    /\ DOMAIN store.latest[1].training_info \cap PrunableKeys = {}

\* The batches validate_one_dataset takes from the stream, and among them
\* those that returned metrics.
EvaluatedCount ==
    IF val_batches > 0 /\ val_batches < Len(val_stream)
    THEN val_batches ELSE Len(val_stream)

Collected ==
    SelectSeq(SubSeq(val_stream, 1, EvaluatedCount), LAMBDA b : Len(b) > 0)

RECURSIVE BatchTotal(_, _, _)
BatchTotal(b, m, i) ==
    IF i = 0 THEN 0 ELSE MbMetrics(b[i])[m] + BatchTotal(b, m, i - 1)

\* v_i of metric m and n_i, for the i-th collected batch.
BatchValue(i, m) == BatchTotal(Collected[i], m, Len(Collected[i]))
BatchSamples(i) == BatchValue(i, M_num_valid_samples)

RECURSIVE SamplesUpTo(_)
SamplesUpTo(k) == IF k = 0 THEN 0 ELSE BatchSamples(k) + SamplesUpTo(k - 1)

RECURSIVE WeightedUpTo(_, _)
WeightedUpTo(k, m) ==
    IF k = 0 THEN 0
    ELSE BatchValue(k, m) * BatchSamples(k) + WeightedUpTo(k - 1, m)

TotalSamples == SamplesUpTo(Len(Collected))

VodEnded == vod_pc \in {"returned", "ZeroDivisionError"}

\* C7: whenever the collected sample counts sum to zero, validate_one_dataset
\* returns, all nine metrics are 0.0 and a warning was emitted.
C7_ZeroSamplesReportZero ==
    (VodEnded /\ TotalSamples = 0) =>
        /\ vod_pc = "returned"
        /\ \A m \in MetricNames : RatEq(vod_val_metrics[m], Rat(0, 1))
        /\ vod_warnings >= 1

\* C8: with a non-zero total of samples, each of the six loss-like metrics
\* is reported as sum(v_i * n_i) / sum(n_i) over the collected batches, v_i
\* being the sum of the batch's micro-batch values, and num_valid_samples is
\* reported as sum(n_i).
C8_WeightedMean ==
    (VodEnded /\ TotalSamples # 0) =>
        /\ vod_pc = "returned"
        /\ \A m \in WeightedMetrics :
              /\ vod_val_metrics[m].d # 0
              /\ vod_val_metrics[m].n * TotalSamples
                    = WeightedUpTo(Len(Collected), m) * vod_val_metrics[m].d
        /\ RatEq(vod_val_metrics[M_num_valid_samples], Rat(TotalSamples, 1))

C8_Witness ==
    /\ vod_pc = "returned" /\ Len(Collected) = 2
    /\ Len(Collected[1]) = 2
    /\ BatchSamples(1) # BatchSamples(2)
    /\ BatchValue(1, <<"loss">>) # BatchValue(2, <<"loss">>)
    /\ BatchSamples(1) > 0 /\ BatchSamples(2) > 0

\* C9: a batch whose size is not a multiple of dp_size * micro_batch_size
\* (twice the configured micro-batch size) is padded to the next multiple in
\* validation and is fatal in training, before any padding or scoring; every
\* batch scored and yielded has a size divisible by that product.
ConfiguredMicroBatchSize ==
    IF ref_cfg.is_val
    THEN ref_cfg.val_micro_batch_size ELSE ref_cfg.train_micro_batch_size

ShardUnit == ref_cfg.dp_size * 2 * ConfiguredMicroBatchSize

C9_PartialBatch ==
    ref_batch # None =>
        LET b == ref_batch[1]
            partial == b.upstream_size % ShardUnit # 0
        IN /\ ref_pc = "AssertionError" <=> (partial /\ ~ref_cfg.is_val)
           /\ ref_pc = "AssertionError" =>
                 /\ b.size = b.upstream_size
                 /\ ref_calls = ref_pulled - 1
           /\ ref_pc \in {"yielded", "exhausted"} =>
                 /\ b.size % ShardUnit = 0
                 /\ Len(b.logprobs) = b.size
                 /\ b.size >= b.upstream_size
                 /\ b.size - b.upstream_size < ShardUnit
                 /\ ref_calls = ref_pulled
                 /\ ~partial => b.size = b.upstream_size

C9_Witness ==
    /\ ref_pc = "yielded" /\ ref_cfg.is_val /\ ref_batch # None
    /\ ref_batch[1].upstream_size = 3 /\ ref_batch[1].size = 4
    /\ ref_pulled = 2

\* C10: in every yielded batch of sequence length L, position i
\* (0 <= i < L-1) of reference_policy_logprobs holds the scorer's output at
\* position i+1, position L-1 holds the scorer's output at position 0, and
\* rotating the attached values right by one restores the scorer's output.
C10_LeftRotation ==
    (ref_pc = "yielded" /\ ref_batch # None) =>
        LET b == ref_batch[1]
            L == ref_cfg.seq_len
        IN \A r \in 1..b.size :
              /\ Len(b.reference_policy_logprobs[r]) = L
              /\ \A i \in 0..(L - 2) :
                    b.reference_policy_logprobs[r][i + 1] = b.logprobs[r][i + 2]
              /\ b.reference_policy_logprobs[r][L] = b.logprobs[r][1]
              /\ roll(b.reference_policy_logprobs[r], 1) = b.logprobs[r]

C10_Witness ==
    /\ ref_pc = "yielded" /\ ref_batch # None
    /\ ref_cfg.seq_len = 3 /\ ref_batch[1].size >= 2
    /\ ref_batch[1].reference_policy_logprobs[2] = <<22, 23, 21>>

Fatal == {"AssertionError", "TypeError"}

\* C11: with val_period = 0 and an empty validation mapping, no process of
\* the run ever passes over a validation dataset, none reaches the periodic
\* validation, the validation metrics are never more than an empty dict, and
\* no fatal error is raised, whatever val_at_start is.
C11_ValidationDisabled ==
    (cfg.val_period = 0 /\ cfg.val_datasets = {}) =>
        /\ observed.validated = {}
        /\ pc # "validate"
        /\ pc \notin Fatal
        /\ val_metrics # None => DOMAIN val_metrics[1] = {}

\* A run with val_at_start that called validate() over the empty mapping and
\* went on to complete all its training steps.
C11_Witness ==
    /\ cfg.val_period = 0 /\ cfg.val_datasets = {} /\ cfg.val_at_start
    /\ observed.initial_validation
    /\ pc = "done"
    /\ done_steps = cfg.max_num_epochs * cfg.len_train_dataloader
    /\ done_steps >= 2

\* C12: with a non-zero val_period and no validation dataset (an empty
\* mapping, or a dataset whose loader is None) no process gets past a
\* validation: neither past the initial one nor past the periodic one of a
\* step that is a multiple of val_period.
C12_NoDatasetIsFatal ==
    (cfg.val_period # 0 /\ (cfg.val_datasets = {} \/ MeetsNoneLoader(cfg))) =>
        /\ ~(pc = "prepare" /\ observed.initial_validation)
        /\ ~(pc = "account" /\ done_steps % cfg.val_period = 0)

\* C13: when dynamic batching or sequence packing is enabled, setup does
\* nothing but test the two switches and then stops with an AssertionError:
\* no seeding, logger, checkpoint lookup, loader, cluster or policy effect
\* ever happens, and setup never returns. With both switches off no
\* assertion fails.
C13_AssertBeforeEffects ==
    /\ (setup_cfg.dynamic_batching \/ setup_cfg.sequence_packing) =>
          /\ setup_effects = <<>>
          /\ setup_pc \in {"assert_dynamic_batching",
                            "assert_sequence_packing", "AssertionError"}
          /\ setup_pc = "assert_sequence_packing" =>
                ~setup_cfg.dynamic_batching
    /\ setup_pc = "AssertionError" =>
          setup_cfg.dynamic_batching \/ setup_cfg.sequence_packing

\* Sequence packing alone is enabled and a checkpoint exists: setup has
\* stopped at the second assertion without looking the checkpoint up.
C13_Witness ==
    /\ setup_cfg.sequence_packing /\ ~setup_cfg.dynamic_batching
    /\ setup_cfg.has_checkpoint
    /\ setup_pc = "AssertionError"
    /\ setup_effects = <<>>

\* C14: a warning about the configured metric is issued for a step exactly
\* when the metric is not a key of the save state being checkpointed, and it
\* changes nothing else: every step that is due a checkpoint, warned about
\* or not, has its checkpoint staged with that save state, completed and
\* finalized as the latest, no exception stops the process, and a process
\* returns only on a timeout save or at one of the two ceilings.
DueCheckpoint ==
    \/ done_steps % cfg.save_period = 0
    \/ done_steps >= cfg.max_num_steps
    \/ /\ current_epoch + 1 = cfg.max_num_epochs
       /\ train_dataloader.pos = cfg.len_train_dataloader
    \/ should_save_by_timeout

C14_MissingMetricOnlyWarns ==
    /\ observed.metric_warnings # {} => cfg.metric_name # None
    /\ pc \in {"init_tmp"} \cup StagingPcs =>
          (total_steps + 1 \in observed.metric_warnings
             <=> MetricMissing(dpo_save_state))
    /\ pc \in StagingPcs =>
          /\ store.tmp # None
          /\ store.tmp[1].key = total_steps + 1
          /\ store.tmp[1].training_info = dpo_save_state
    /\ pc = "advance" =>
          /\ done_steps \in observed.metric_warnings => DueCheckpoint
          /\ DueCheckpoint =>
                /\ store.tmp = None /\ store.latest # None
                /\ store.latest[1].key = done_steps
                /\ store.latest[1].training_info = dpo_save_state
                /\ Complete(store.latest[1])
                /\ TimesWritten(done_steps) = 1
    /\ pc \in Fatal => MeetsNoneLoader(cfg)
    /\ pc = "done" =>
          \/ should_save_by_timeout
          \/ total_steps >= cfg.max_num_steps
          \/ current_epoch >= cfg.max_num_epochs

\* One process wrote the checkpoints of steps 3 and 6: the first with the
\* warning, its validation keys of step 2 pruned, the second without.
C14_Witness ==
    /\ cfg.metric_name # None
    /\ pc = "advance"
    /\ written = <<3, 6>>
    /\ observed.metric_warnings = {3}
    /\ cfg.metric_name[1] \in DOMAIN store.latest[1].training_info

\* C15: while validate_one_dataset is evaluating, from its first batch on,
\* the trainer is in evaluation mode, and whenever it has returned, with
\* aggregated metrics or with the zeros of a pass that collected nothing, the
\* trainer is back in training mode.
C15_TrainingModeOnReturn ==
    /\ vod_pc = "returned" => policy_mode = "train"
    /\ (vod_pc \in {"loop", "aggregate"} /\ batch_idx > 0) =>
          policy_mode = "eval"

\* A pass that evaluated two batches, neither of which returned metrics, and
\* has returned the zeros.
C15_Witness ==
    /\ vod_pc = "returned"
    /\ batch_idx = 2 /\ num_valid_batches = 0
    /\ policy_mode = "train"

\* The batches taken so far, and among them those that returned metrics.
Taken == SubSeq(val_stream, 1, batch_idx)
TakenNonEmpty == SelectSeq(Taken, LAMBDA b : Len(b) > 0)

\* C16: validate_one_dataset never takes more than min(val_batches, B)
\* batches of a stream of B batches when val_batches > 0, nor more than B
\* otherwise; when the loop is over it has taken exactly that many; and the
\* values it has collected are those of the first batches of the stream, in
\* stream order.
C16_EvaluatesFirstBatches ==
    /\ batch_idx <= EvaluatedCount
    /\ vod_pc \in {"aggregate", "returned", "ZeroDivisionError"} =>
          batch_idx = EvaluatedCount
    /\ vod_pc \in {"loop", "aggregate"} =>
          /\ num_valid_batches = Len(TakenNonEmpty)
          /\ \A m \in MetricNames :
                vod_val_metrics[m] =
                   [i \in 1..Len(TakenNonEmpty) |->
                       Reduction(m, MbList(TakenNonEmpty[i], m))]

\* The limit is 1 and the stream has two different batches: the loop is over
\* after the first.
C16_Witness ==
    /\ vod_pc = "aggregate"
    /\ val_batches = 1 /\ Len(val_stream) = 2
    /\ val_stream[1] # val_stream[2]
    /\ Len(val_stream[1]) > 0 /\ Len(val_stream[2]) > 0
    /\ batch_idx = 1

\* C17: a process is at, or has run, the initial validation iff val_at_start
\* is set and the total_steps it entered with is 0, that is iff val_at_start
\* is set and it did not start from a checkpoint (a checkpoint restores
\* total_steps >= 1); the initial validation comes before any training step,
\* batch or checkpoint of the process, and is not entered a second time.
C17_InitialValidationOnce ==
    /\ pc \notin {"entry", "crashed"} =>
          ((pc = "initial_validation" \/ observed.initial_validation)
             <=> (cfg.val_at_start /\ ~resumed))
    /\ pc \in {"initial_validation", "prepare"} =>
          /\ (pc = "initial_validation" \/ observed.initial_validation)
                <=> (cfg.val_at_start /\ total_steps = 0)
          /\ resumed <=> total_steps >= 1
    /\ pc = "initial_validation" =>
          /\ ~observed.initial_validation
          /\ done_steps = 0 /\ written = <<>>
          /\ train_dataloader = FreshLoader
    /\ (resumed /\ pc = "entry") => dpo_save_state[K_total_steps] >= 1

\* A process resumed from a checkpoint with val_at_start set is at its first
\* training step without having validated.
C17_Witness ==
    /\ resumed /\ cfg.val_at_start
    /\ pc = "train"
    /\ ~observed.initial_validation
    /\ written = <<>>

Min(a, b) == IF a < b THEN a ELSE b

StepCeiling ==
    Min(cfg.max_num_steps, cfg.max_num_epochs * cfg.len_train_dataloader)

\* C18: a call of dpo_train from a fresh start reaches its return; it never
\* completes more than min(max_num_steps, max_num_epochs * N) steps; when it
\* has returned, either check_save() was true after the step just completed,
\* or total_steps has reached max_num_steps after a completed step, or the
\* epoch counter has reached max_num_epochs after an exhausted epoch; and a
\* run in which check_save() was never true has completed exactly
\* min(max_num_steps, max_num_epochs * N) steps.
C18_Ended ==
    /\ done_steps <= StepCeiling
    /\ pc = "done" =>
          /\ total_steps = done_steps
          /\ \/ should_save_by_timeout /\ done_steps >= 1
             \/ total_steps >= cfg.max_num_steps /\ done_steps >= 1
             \/ /\ current_epoch >= cfg.max_num_epochs
                /\ train_dataloader.pos = cfg.len_train_dataloader
          /\ ~should_save_by_timeout => done_steps = StepCeiling

C19_PositionMatchesCount ==
    \A c \in Checkpoints :
        LET t == c.training_info
            N == cfg.len_train_dataloader
        IN /\ 0 <= t[K_step] /\ t[K_step] < N
           /\ t[K_total_steps] = t[K_epoch] * N + t[K_step]

\* C19 amended: in every checkpoint 0 <= step < N; total_steps is
\* epoch * N + step when step > 0, and (epoch + 1) * N when step = 0, which
\* is the checkpoint of the last batch of epoch `epoch`: step has wrapped,
\* the epoch recorded is still the one just finished.
C19_PositionUpToWrap ==
    \A c \in Checkpoints :
        LET t == c.training_info
            N == cfg.len_train_dataloader
        IN /\ 0 <= t[K_step] /\ t[K_step] < N
           /\ t[K_step] > 0 => t[K_total_steps] = t[K_epoch] * N + t[K_step]
           /\ t[K_step] = 0 => t[K_total_steps] = (t[K_epoch] + 1) * N
           /\ t[K_total_steps] = c.key

\* The checkpoint of the last batch of the first epoch of three batches is
\* the latest, and the process is training in the second epoch.
C19_Witness ==
    /\ cfg.len_train_dataloader = 3
    /\ store.latest # None
    /\ store.latest[1].training_info[K_step] = 0
    /\ store.latest[1].training_info[K_epoch] = 0
    /\ store.latest[1].training_info[K_total_steps] = 3
    /\ pc = "train" /\ current_epoch = 1

\* The position of an uninterrupted run while it works on global step s, and
\* what it records if it checkpoints that step.
EpochOf(s) == (s - 1) \div cfg.len_train_dataloader
StepOf(s) == (s - 1) % cfg.len_train_dataloader

RecordedAt(s) ==
    [epoch |-> EpochOf(s),
     step |-> s % cfg.len_train_dataloader,
     total_steps |-> s,
     consumed_samples |-> s * GlobalBatchSize]

DueAt(s) ==
    \/ s % cfg.save_period = 0
    \/ s >= cfg.max_num_steps
    \/ s = cfg.max_num_epochs * cfg.len_train_dataloader

InStep ==
    pc \in {"validate", "account", "check_save", "save_state", "init_tmp",
            "advance"} \cup StagingPcs

\* C20: whether a process started fresh or from the checkpoint of any step
\* k, while it works on global step s its epoch, its step within the epoch
\* and its loader cursor are those of the uninterrupted run at s; every
\* checkpoint holds the (epoch, step, total_steps, consumed_samples) the
\* uninterrupted run records at that step; without a timeout a step is
\* checkpointed iff the uninterrupted run checkpoints it; and a process that
\* returns without a timeout has brought the run to the same final step.
C20_ResumeEquivalence ==
    /\ \A c \in Checkpoints :
          [epoch |-> c.training_info[K_epoch],
           step |-> c.training_info[K_step],
           total_steps |-> c.training_info[K_total_steps],
           consumed_samples |-> c.training_info[K_consumed_samples]]
             = RecordedAt(c.key)
    /\ pc = "train" =>
          /\ total_steps = done_steps
          /\ current_epoch = EpochOf(done_steps + 1)
          /\ current_step = StepOf(done_steps + 1)
          /\ train_dataloader = [pos |-> current_step + 1, restored |-> FALSE]
    /\ InStep =>
          /\ total_steps = done_steps - 1
          /\ current_epoch = EpochOf(done_steps)
          /\ current_step = StepOf(done_steps)
          /\ train_dataloader = [pos |-> current_step + 1, restored |-> FALSE]
    /\ (pc = "advance" /\ ~should_save_by_timeout) =>
          (TimesWritten(done_steps) = 1 <=> (cfg.enabled /\ DueAt(done_steps)))
    /\ (pc = "done" /\ ~should_save_by_timeout) => done_steps = StepCeiling

\* A process that started from the checkpoint of step 3, the last batch of
\* the first epoch of three, has written the checkpoint of a later step.
C20_Witness ==
    /\ resumed /\ cfg.len_train_dataloader = 3
    /\ pc = "advance"
    /\ Len(written) = 1
    /\ store.latest[1].key = written[1]
    /\ store.latest[1].prior = 3
    /\ store.latest[1].training_info[K_epoch] = 1

C22_LazyOneForOne ==
    /\ observed.scored = observed.pulled
    /\ observed.pulled = observed.trained + (IF pc = "train" THEN 1 ELSE 0)
    /\ pc = "save_dataloader" => train_dataloader.pos = current_step + 1
    /\ \A c \in Checkpoints :
          c.dataloader # None =>
             c.dataloader[1] =
                IF c.training_info[K_step] = 0
                THEN cfg.len_train_dataloader ELSE c.training_info[K_step]

\* A process resumed in the middle of an epoch of three batches has taken
\* and trained on one batch and is saving the cursor after the third.
C22_Witness ==
    /\ resumed /\ cfg.len_train_dataloader = 3
    /\ pc = "finalize"
    /\ observed.pulled = 1 /\ observed.trained = 1
    /\ store.tmp[1].dataloader = Some(3)

\* C23: a checkpoint being staged keeps every num_valid_samples key of the
\* checkpoint before it, with the value of this step's validation if there
\* was one for that dataset and with the earlier value otherwise; and a
\* checkpoint of a validation step holds the key, with that step's value,
\* for every dataset.
C23_SampleCountsRetained ==
    /\ (pc \in StagingPcs /\ store.latest # None) =>
          \A d \in cfg.val_datasets :
             LET k == ValKey(d, M_num_valid_samples)
                 old == store.latest[1].training_info
                 new == store.tmp[1].training_info
             IN k \in DOMAIN old =>
                   /\ k \in DOMAIN new
                   /\ new[k] = IF val_metrics # None /\ k \in DOMAIN val_metrics[1]
                               THEN val_metrics[1][k] ELSE old[k]
    /\ \A c \in Checkpoints : \A d \in cfg.val_datasets :
          LET k == ValKey(d, M_num_valid_samples)
          IN /\ (cfg.val_period > 0 /\ c.key % cfg.val_period = 0) =>
                   (k \in DOMAIN c.training_info /\ c.training_info[k] = c.key)
             /\ k \in DOMAIN c.training_info =>
                   /\ c.training_info[k] >= 1
                   /\ c.training_info[k] <= c.key
                   /\ c.training_info[k] % cfg.val_period = 0

\* The checkpoint of step 3 is being staged in a resumed process: it has
\* lost the loss of dataset A that the checkpoint of step 2 holds and keeps
\* A's sample count of step 2.
C23_Witness ==
    /\ resumed /\ pc \in StagingPcs
    /\ store.latest # None /\ store.latest[1].key = 2
    /\ store.tmp[1].key = 3
    /\ ValKey("A", <<"loss">>) \in DOMAIN store.latest[1].training_info
    /\ ValKey("A", <<"loss">>) \notin DOMAIN store.tmp[1].training_info
    /\ ValKey("A", M_num_valid_samples) \in DOMAIN store.tmp[1].training_info
    /\ store.tmp[1].training_info[ValKey("A", M_num_valid_samples)] = 2

\* C24: total_valid_tokens is, at every point of a process, the value it
\* took at its start plus the global_valid_toks of every step trained since;
\* the start value is 0 on a fresh start and for a save state that has no
\* such field, and the stored field otherwise. Each checkpoint the process
\* stages records the count as it stands at that step.
Running == pc \notin Ended \cup {"entry"}

C24_TokensAccumulate ==
    /\ Running =>
          /\ total_valid_tokens = observed.start_valid_tokens + observed.valid_toks
          /\ observed.valid_toks >= observed.trained - (IF pc \in {"validate", "account"} THEN 1 ELSE 0)
    /\ (Running /\ written = <<>>) =>
          observed.start_valid_tokens =
             IF store.latest = None
                  \/ K_total_valid_tokens \notin DOMAIN store.latest[1].training_info
             THEN 0
             ELSE store.latest[1].training_info[K_total_valid_tokens]
    /\ (pc \in StagingPcs /\ store.tmp # None) =>
          /\ K_total_valid_tokens \in DOMAIN store.tmp[1].training_info
          /\ store.tmp[1].training_info[K_total_valid_tokens] = total_valid_tokens
    /\ (Running /\ written # <<>>) =>
          /\ K_total_valid_tokens \in DOMAIN store.latest[1].training_info
          /\ store.latest[1].training_info[K_total_valid_tokens] <= total_valid_tokens

\* A process resumed from a checkpoint without the field has trained a step
\* that does not checkpoint and a later one whose checkpoint is staged.
C24_Witness ==
    /\ resumed /\ written = <<>>
    /\ store.latest # None
    /\ K_total_valid_tokens \notin DOMAIN store.latest[1].training_info
    /\ pc = "save_policy"
    /\ observed.trained >= 2
    /\ store.tmp[1].training_info[K_total_valid_tokens] = observed.valid_toks

\* The operations an iteration can make, in the order of the code.
IterationOrder ==
    <<"train", "validate", "consumed_samples", "mark_iteration", "check_save",
      "init_tmp_checkpoint", "save_checkpoint", "save_dataloader",
      "finalize_checkpoint", "log_metrics", "advance">>

OrderIndex(op) == CHOOSE i \in DOMAIN IterationOrder : IterationOrder[i] = op

InOrder(ops) ==
    \A i, j \in DOMAIN ops : i < j => OrderIndex(ops[i]) < OrderIndex(ops[j])

Made(op) == \E i \in DOMAIN observed.ops : observed.ops[i] = op

\* The global step the operations of observed.ops belong to.
ThisStep == IF Made("advance") THEN total_steps ELSE total_steps + 1

ValidationDue == cfg.val_period > 0 /\ ThisStep % cfg.val_period = 0

CheckpointDue ==
    /\ cfg.enabled
    /\ \/ is_last_step
       \/ ThisStep % cfg.save_period = 0
       \/ should_save_by_timeout

\* C25: the operations of one iteration are made in the order training
\* step, validation pass when due, consumed_samples update, checkpoint when
\* due, logging and advance; a checkpoint for a step is staged only after
\* that step's validation pass has returned, and a training step starts
\* only with no checkpoint staged, the one of the step before finalized.
C25_IterationOrder ==
    /\ InOrder(observed.ops)
    /\ observed.ops # <<>> => observed.ops[1] = "train"
    /\ Made("consumed_samples") => (Made("validate") <=> ValidationDue)
    /\ Made("init_tmp_checkpoint") =>
          /\ Made("consumed_samples")
          /\ ValidationDue => (Made("validate") /\ val_metrics # None)
    /\ Made("log_metrics") =>
          /\ Made("consumed_samples")
          /\ Made("init_tmp_checkpoint") <=> CheckpointDue
          /\ Made("init_tmp_checkpoint") =>
                /\ Made("save_checkpoint") /\ Made("save_dataloader")
                /\ Made("finalize_checkpoint")
                /\ store.tmp = None
                /\ store.latest # None /\ store.latest[1].key = ThisStep
    /\ Made("advance") => Made("log_metrics")
    /\ pc = "train" =>
          /\ observed.ops = <<>>
          /\ store.tmp = None
          /\ written # <<>> => Last(written) <= total_steps

\* The second iteration of a process has made every operation, validation
\* and checkpoint included.
C25_Witness ==
    /\ observed.ops = IterationOrder
    /\ observed.trained >= 2
    /\ pc = "for"

\* C26: a process calls start_iterations once, before its first training
\* step; it calls mark_iteration once for each training step that got
\* through its validation, and check_save once for each such step, after
\* the step's mark_iteration and validation pass and never between the
\* start of a training step and its mark_iteration.
C26_TimeoutProtocol ==
    /\ pc = "entry" => (observed.start_iterations = 0 /\ observed.trained = 0)
    /\ pc \notin {"entry", "crashed"} => observed.start_iterations = 1
    /\ observed.mark_iterations =
          observed.trained
            - (IF Made("train") /\ ~Made("mark_iteration") THEN 1 ELSE 0)
    /\ observed.check_saves =
          observed.trained
            - (IF Made("train") /\ ~Made("check_save") THEN 1 ELSE 0)
    /\ NumberOf(observed.ops, "mark_iteration") <= 1
    /\ NumberOf(observed.ops, "check_save") <= 1
    /\ \A i \in DOMAIN observed.ops :
          observed.ops[i] = "check_save" =>
             /\ \E j \in 1..(i - 1) : observed.ops[j] = "mark_iteration"
             /\ ValidationDue => \E j \in 1..(i - 1) : observed.ops[j] = "validate"
             /\ \A j \in DOMAIN observed.ops :
                   observed.ops[j] \in {"train", "validate"} => j < i
    /\ pc \in {"train", "validate", "account"} => ~Made("check_save")

\* The tracker has been asked after the second step of a process, a step
\* with a validation pass.
C26_Witness ==
    /\ pc = "advance"
    /\ observed.check_saves = 2 /\ observed.mark_iterations = 2
    /\ Made("validate")

\* The batches taken so far that returned no micro-batch metrics.
EmptyTaken == Len(Taken) - Len(TakenNonEmpty)

\* The mean-reduced metric m summed over the collected batches.
RECURSIVE MeanUpTo(_, _)
MeanUpTo(k, m) ==
    IF k = 0 THEN Rat(0, 1)
    ELSE RatAdd(Rat(BatchValue(k, m), Len(Collected[k])), MeanUpTo(k - 1, m))

\* C27: in validate_one_dataset a batch without micro-batch metrics adds
\* nothing to any list, gives one warning, is never what stops the pass with
\* an exception, and is counted among the val_batches batches taken; what
\* the pass returns is computed from the batches with metrics among the
\* first val_batches of the stream, and is all zeros when there is none.
C27_EmptyBatchesSkipped ==
    /\ vod_pc \in {"loop", "aggregate"} =>
          /\ vod_warnings = EmptyTaken
          /\ num_valid_batches = batch_idx - EmptyTaken
          /\ \A m \in MetricNames :
                Len(vod_val_metrics[m]) = batch_idx - EmptyTaken
          /\ batch_idx <= EvaluatedCount
    /\ VodEnded => batch_idx = EvaluatedCount
    /\ vod_pc = "ZeroDivisionError" => (Collected # <<>> /\ TotalSamples = 0)
    /\ vod_pc = "returned" =>
          IF Collected = <<>>
          THEN /\ \A m \in MetricNames : vod_val_metrics[m] = Rat(0, 1)
               /\ vod_warnings = EvaluatedCount + 1
          ELSE /\ vod_warnings = EvaluatedCount - Len(Collected)
               /\ RatEq(vod_val_metrics[M_num_valid_samples],
                        Rat(TotalSamples, 1))
               /\ \A m \in MeanReduced :
                     RatEq(vod_val_metrics[m], MeanUpTo(Len(Collected), m))
               /\ TotalSamples # 0 =>
                     \A m \in WeightedMetrics :
                        RatEq(vod_val_metrics[m],
                              Rat(WeightedUpTo(Len(Collected), m), TotalSamples))

\* The limit is one batch, the first batch of the stream has no metrics and
\* the second has: the pass has returned the zeros.
C27_Witness ==
    /\ vod_pc = "returned"
    /\ val_batches = 1 /\ Len(val_stream) = 2
    /\ Len(val_stream[1]) = 0 /\ Len(val_stream[2]) > 0
    /\ num_valid_batches = 0 /\ vod_warnings = 2

Max(a, b) == IF a >= b THEN a ELSE b

\* The counters the process entered with are at a ceiling of its
\* configuration.
StartedAtCeiling ==
    \/ observed.start_total_steps >= cfg.max_num_steps
    \/ observed.start_epoch >= cfg.max_num_epochs

\* C28: a training step runs only with total_steps below max_num_steps and
\* the epoch below max_num_epochs; total_steps never exceeds the larger of
\* max_num_steps and the total_steps the process entered with; and a process
\* that entered at the step ceiling or the epoch ceiling trains no step and
\* writes no checkpoint.
C28_CeilingsRespected ==
    /\ pc \in {"train", "validate", "account", "check_save", "save_state",
               "init_tmp", "advance"} \cup StagingPcs =>
          /\ total_steps < cfg.max_num_steps
          /\ current_epoch < cfg.max_num_epochs
    /\ pc \notin {"entry", "crashed"} =>
          /\ total_steps <= Max(cfg.max_num_steps, observed.start_total_steps)
          /\ total_steps >= observed.start_total_steps
    /\ (pc \notin {"entry", "crashed"} /\ StartedAtCeiling) =>
          /\ observed.trained = 0
          /\ observed.pulled = 0
          /\ written = <<>>
          /\ store.tmp = None
          /\ total_steps = observed.start_total_steps

\* A process that found a checkpoint above its step ceiling has returned.
C28_Witness ==
    /\ pc = "done"
    /\ resumed
    /\ observed.start_total_steps > cfg.max_num_steps
    /\ observed.start_epoch < cfg.max_num_epochs
    /\ total_steps > cfg.max_num_steps
    /\ observed.trained = 0 /\ written = <<>>

MeanOf(v) == Rat(SumSeq(v), Len(v))
SumOf(v) == Rat(SumSeq(v), 1)

\* C29 as stated: of the keys of a step's metrics, global_valid_toks and
\* global_valid_seqs are reduced by mean and every other key by sum.
C29_OnlyGlobalFieldsByMean ==
    reduce_pc = "reduced" =>
        IF metric_key \in {"global_valid_toks", "global_valid_seqs"}
        THEN RatEq(reduced[1], MeanOf(metric_values))
        ELSE RatEq(reduced[1], SumOf(metric_values))

\* C29: of the keys of a step's metrics, lr, wd, global_valid_seqs and
\* global_valid_toks are reduced by mean over the micro-batches and every
\* other key by sum.
C29_FourFieldsByMean ==
    reduce_pc = "reduced" =>
        IF metric_key \in {"lr", "wd", "global_valid_seqs", "global_valid_toks"}
        THEN RatEq(reduced[1], MeanOf(metric_values))
        ELSE RatEq(reduced[1], SumOf(metric_values))

\* The learning rate of a step of two micro-batches has been reduced, and
\* its mean is not its sum.
C29_Witness ==
    /\ reduce_pc = "reduced"
    /\ metric_key = "lr"
    /\ Len(metric_values) = 2
    /\ ~RatEq(MeanOf(metric_values), SumOf(metric_values))
    /\ RatEq(reduced[1], MeanOf(metric_values))

HasGeneration(item) == "generation_token_ids" \in DOMAIN item

\* The items with generation_token_ids read so far, and those of them that
\* got past the assertion.
Trainable == SelectSeq(output_items, HasGeneration)
Accepted ==
    IF penguin_pc = "AssertionError"
    THEN SubSeq(Trainable, 1, Len(Trainable) - 1)
    ELSE Trainable

IsPrefixOf(a, b) == Len(a) <= Len(b) /\ \A i \in DOMAIN a : a[i] = b[i]

FullTokens(item) == item.prompt_token_ids \o item.generation_token_ids

RECURSIVE ConcatTokens(_)
ConcatTokens(log) ==
    IF log = <<>> THEN <<>> ELSE Head(log).token_ids \o ConcatTokens(Tail(log))

\* C30: _postprocess_penguin_to_nemo_rl_result passes over the items
\* without generation_token_ids; an item with them is accepted only when
\* the tokens seen so far are a prefix of its prompt_token_ids, and stops the
\* call with an assertion otherwise; the message log has a user entry and an
\* assistant entry for each accepted item, its token_ids concatenated are
\* the prompt_token_ids and generation_token_ids of the last accepted item,
\* and the dict returned carries that log, its first message alone as
\* input_message_log, and the input.
C30_ContiguousMessageLog ==
    /\ Len(nemo_rl_message_log) = 2 * Len(Accepted)
    /\ \A i \in DOMAIN nemo_rl_message_log :
          nemo_rl_message_log[i].role =
             IF i % 2 = 1 THEN "user" ELSE "assistant"
    /\ \A i \in DOMAIN Accepted :
          /\ IsPrefixOf(IF i = 1 THEN <<>> ELSE FullTokens(Accepted[i - 1]),
                        Accepted[i].prompt_token_ids)
          /\ nemo_rl_message_log[2 * i].token_ids
                = Accepted[i].generation_token_ids
          /\ nemo_rl_message_log[2 * i].generation_logprobs
                = Accepted[i].generation_log_probs
    /\ ConcatTokens(nemo_rl_message_log) = seen_token_ids
    /\ seen_token_ids =
          IF Accepted = <<>> THEN <<>> ELSE FullTokens(Last(Accepted))
    /\ penguin_pc = "AssertionError" =>
          /\ HasGeneration(Last(output_items))
          /\ ~IsPrefixOf(seen_token_ids, Last(output_items).prompt_token_ids)
    /\ penguin_pc = "returned" =>
          /\ nemo_rl_result[1].message_log = nemo_rl_message_log
          /\ nemo_rl_result[1].input_message_log =
                IF nemo_rl_message_log = <<>> THEN <<>>
                ELSE <<nemo_rl_message_log[1]>>
          /\ nemo_rl_result[1].full_result = output_items
    /\ penguin_pc \in {"loop", "AssertionError"} => nemo_rl_result = None

\* A call has returned for an output of a trainable item, an item without
\* token ids and a second trainable item whose prompt extends the first.
C30_Witness ==
    /\ penguin_pc = "returned"
    /\ Len(output_items) = 3
    /\ HasGeneration(output_items[1]) /\ ~HasGeneration(output_items[2])
    /\ HasGeneration(output_items[3])
    /\ Len(nemo_rl_result[1].message_log) = 4
    /\ nemo_rl_result[1].message_log[1].token_ids # <<>>
    /\ nemo_rl_result[1].message_log[3].token_ids # <<>>
    /\ Len(nemo_rl_result[1].input_message_log) = 1

FormatEnded == format_pc \in {"returned", "AssertionError", "IndexError"}

HasFinalAssistant(conversation) ==
    /\ conversation # <<>>
    /\ Item(Last(conversation), "role") = "assistant"

ContextsSerializeAlike ==
    json_dumps(AllButLast(data.chosen)) = json_dumps(AllButLast(data.rejected))

\* C31: when its call is over, format_dpo_chatml has returned chosen[:-1] as
\* prompt and the contents of the two final messages as chosen_response and
\* rejected_response if chosen[:-1] and rejected[:-1] serialize identically
\* and both final messages have role "assistant"; in every other case it has
\* raised an AssertionError and returned nothing.
C31_ReturnsOrAsserts ==
    FormatEnded =>
        IF /\ ContextsSerializeAlike
           /\ HasFinalAssistant(data.chosen)
           /\ HasFinalAssistant(data.rejected)
        THEN /\ format_pc = "returned"
             /\ formatted =
                   Some([prompt |-> AllButLast(data.chosen),
                         chosen_response |-> Item(Last(data.chosen), "content"),
                         rejected_response |->
                            Item(Last(data.rejected), "content")])
        ELSE /\ format_pc = "AssertionError"
             /\ formatted = None
====
